---- MODULE Spec2Model ----
(***************************************************************************)
(* A model of the ecosystem simulator src/lifegen.py: the terrain built    *)
(* by Ecosystem.__init__, the animal methods, and the tick pipeline        *)
(* Ecosystem.update.                                                       *)
(*                                                                         *)
(* Numbers.  Python floats are modelled in fixed point:                    *)
(*   temperatures and plant nutrition in 1/1000 (37.0 is 37000),           *)
(*   speed and fertility in 1/10 (0.5 is 5),                               *)
(*   hunting_success_rate and season factors in 1/1000 (0.2 is 200).       *)
(* hunger, thirst, energy, age, decay and the counters are the integers    *)
(* of the program.                                                         *)
(*                                                                         *)
(* Attributes the program only writes and never reads (colon, bladder,     *)
(* Terrain.metadata, strength, agility, wisdom, intelligence,              *)
(* immune_system, sensory_perception, color, Plant.ambient_temperature)    *)
(* are not part of the state.                                              *)
(***************************************************************************)
EXTENDS Integers, Sequences, FiniteSets, TLC

VARIABLES
    grid,                       \* Ecosystem.grid: cell -> terrain_type
    animals,                    \* the Animal objects, by Animal.id
    herbivores,                 \* Ecosystem.herbivores: sequence of ids
    predators,                  \* Ecosystem.predators: sequence of ids
    plants,                     \* Ecosystem.plants: sequence of Plant records
    animals_on_tile,            \* Ecosystem.animals_on_tile: cell -> sequence of ids
    cycle,                      \* Ecosystem.cycle
    ambient_temperature,        \* Ecosystem.ambient_temperature (1/1000 degree)
    current_season,             \* index of Ecosystem.current_season in seasons
    season_cycle,               \* Ecosystem.season_cycle
    herbivore_population_data,  \* Ecosystem.herbivore_population_data
    predator_population_data,   \* Ecosystem.predator_population_data
    plant_population_data,      \* Ecosystem.plant_population_data
    pc,                         \* position inside Ecosystem.update
    idx,                        \* position of the running roster loop
    remaining,                  \* remaining_herbivores / remaining_predators
    manual_temperature_control, \* Ecosystem.manual_temperature_control
    raised,                     \* the exception the last call raised, or "none"
    calls,                      \* calls made on the ecosystem outside Ecosystem.update
    elevation,                  \* Terrain.elevation: cell -> elevation
    water_volume,               \* Terrain.water_volume: cell -> volume (1/1000)
    precipitation_level,        \* Ecosystem.precipitation_level
    args                        \* the arguments of the Ecosystem(...) call

vars == <<grid, animals, herbivores, predators, plants, animals_on_tile, cycle,
          ambient_temperature, current_season, season_cycle,
          herbivore_population_data, predator_population_data,
          plant_population_data, pc, idx, remaining,
          manual_temperature_control, raised, calls,
          elevation, water_volume, precipitation_level, args>>

\* what only the constructor assigns
fixed == <<elevation, precipitation_level, args>>

-----------------------------------------------------------------------------
(* Bounds of the model and constants of the program                        *)

GridRows == 2               \* rows of the modelled grid
MaxTicks == 11              \* ticks explored by the pipeline
MaxPlants == 1              \* plants grow_plants may have put in the list
MaxCalls == 3               \* calls made on the ecosystem outside Ecosystem.update
MaxSeasonTicks == 201       \* ticks explored over the cycle of the seasons
MaxFertileTicks == 52       \* of them, the ticks explored where plants can grow
MaxWetTicks == 2            \* ticks explored with rain and key presses
MaxHydroTicks == 4          \* ticks explored with rain over sloping ground
MaxMateTicks == 2           \* ticks explored with three adult herbivores

season_duration == 50

GridCols == GridRows + 2

Min(a, b) == IF a < b THEN a ELSE b
Max(a, b) == IF a > b THEN a ELSE b
Abs(a) == IF a < 0 THEN 0 - a ELSE a

Cells == (0 .. GridRows - 1) \X (0 .. GridCols - 1)

CellAt(k) == <<k \div GridCols, k % GridCols>>

InGrid(r, c) == 0 <= r /\ r < GridRows /\ 0 <= c /\ c < GridCols

-----------------------------------------------------------------------------
(* Terrain construction: _generate_terrain, expand_water_bodies,           *)
(* _smooth_terrain, refine_water_bodies_and_create_shorelines              *)

\* _choose_terrain_type: the types a cell of the given elevation may draw
ChooseTerrainType(e) ==
    IF e < 30 THEN {"water", "land"} ELSE {"vegetation", "land"}

\* _get_neighbors: the 3x3 block around the cell, the cell included, clipped
GetNeighbors(r, c) ==
    {<<r + i, c + j>> : i \in -1 .. 1, j \in -1 .. 1} \cap Cells

\* count_water_neighbors: the 8 surrounding cells that are water
CountWaterNeighbors(g, r, c) ==
    Cardinality({n \in GetNeighbors(r, c) : n # <<r, c>> /\ g[n] = "water"})

\* is_land_and_surrounded_by_water
IsLandAndSurroundedByWater(g, r, c, threshold) ==
    /\ g[<<r, c>>] # "water"
    /\ Cardinality({n \in GetNeighbors(r, c) : g[n] = "water"}) >= threshold

\* a grid computed cell by cell, as a table (the value is the same function)
Table(g) == IF g = [cell \in Cells |-> "water"] THEN g ELSE g

\* _identify_new_water_tiles and _convert_to_water: one expansion cycle
ExpandOnce(g) ==
    LET new == [cell \in Cells |->
                  IF g[cell] # "water" /\ IsLandAndSurroundedByWater(g, cell[1], cell[2], 3)
                  THEN "water" ELSE g[cell]]
    IN  Table(new)

\* expand_water_bodies(expansion_cycles=3)
ExpandWaterBodies(g) == ExpandOnce(ExpandOnce(ExpandOnce(g)))

\* _calculate_smoothed_terrain as it would be with a threshold of 4 samples
CalculateSmoothedTerrainAboveFour(g, r, c) ==
    IF Cardinality({n \in GetNeighbors(r, c) : g[n] = "water"}) > 4
    THEN "water" ELSE g[<<r, c>>]

\* _calculate_smoothed_terrain: water when more than 10 neighbour samples are water
CalculateSmoothedTerrain(g, r, c) ==
    IF Cardinality({n \in GetNeighbors(r, c) : g[n] = "water"}) > 10
    THEN "water" ELSE g[<<r, c>>]

\* _smooth_terrain: one of its three iterations
SmoothOnce(g) ==
    LET new == [cell \in Cells |-> CalculateSmoothedTerrain(g, cell[1], cell[2])]
    IN  Table(new)

\* is_adjacent_to_water (8 surrounding cells), used by _generate_shorelines
IsAdjacentToWater8(g, r, c) ==
    \E n \in GetNeighbors(r, c) : n # <<r, c>> /\ g[n] = "water"

\* _is_adjacent_to_water (4 orthogonal cells), used by handle_drinking
IsAdjacentToWater4(g, r, c) ==
    \E d \in {<<-1, 0>>, <<1, 0>>, <<0, -1>>, <<0, 1>>} :
        /\ InGrid(r + d[1], c + d[2])
        /\ g[<<r + d[1], c + d[2]>>] = "water"

\* _generate_shorelines
GenerateShorelines(g) ==
    [cell \in Cells |->
        IF g[cell] \in {"land", "vegetation"} /\ IsAdjacentToWater8(g, cell[1], cell[2])
        THEN "sand" ELSE g[cell]]

\* refine_water_bodies_and_create_shorelines, the first loop: cells in row-major
\* order, in place; an isolated water cell becomes land or sand at random.
\* The set of grids the loop can end with, from cell number k on.
RECURSIVE RefineFrom(_, _)
RefineFrom(g, k) ==
    IF k >= GridRows * GridCols THEN {g}
    ELSE LET cell == CellAt(k) IN
         IF g[cell] = "water" /\ CountWaterNeighbors(g, cell[1], cell[2]) < 2
         THEN UNION {RefineFrom([g EXCEPT ![cell] = new_type], k + 1) :
                        new_type \in {"land", "sand"}}
         ELSE RefineFrom(g, k + 1)

\* _generate_terrain then _smooth_terrain: the grids construction can end with
ConstructTerrain(raw) ==
    {GenerateShorelines(g) :
        g \in RefineFrom(SmoothOnce(SmoothOnce(SmoothOnce(ExpandWaterBodies(raw)))), 0)}

\* The draws of _generate_terrain the model enumerates: the two leftmost
\* columns draw a low elevation and water, every other cell a high elevation,
\* vegetation in the first row and land below it.
Elevation(cell) == IF cell[2] < 2 THEN 10 ELSE 60

RawDraw(cell) ==
    IF cell[2] < 2 THEN "water" ELSE IF cell[1] = 0 THEN "vegetation" ELSE "land"

RawGrids ==
    {raw \in {[cell \in Cells |-> RawDraw(cell)]} :
        \A cell \in Cells : raw[cell] \in ChooseTerrainType(Elevation(cell))}

ConstructedGrids == UNION {ConstructTerrain(raw) : raw \in RawGrids}

\* _calculate_smoothed_terrain, the water volumes: the Terrain('water', elevation)
\* it returns has the default volume 0
SmoothedVolume(g, volume) ==
    [cell \in Cells |->
        IF Cardinality({n \in GetNeighbors(cell[1], cell[2]) : g[n] = "water"}) > 10
        THEN 0 ELSE volume[cell]]

\* construction as it would be if no water cell were given a volume
ConstructVolumeEmpty(raw, g) == [cell \in Cells |-> 0]

\* The water volumes construction ends with on the grid g it built from raw:
\* _generate_terrain gives a water cell 100, _convert_to_water gives 100,
\* smoothing keeps or zeroes, and every Terrain(new_type, elevation) of the
\* refinement and of the shorelines has the default volume 0.
ConstructVolume(raw, g) ==
    LET expanded == ExpandWaterBodies(raw)
        v1 == [cell \in Cells |-> IF expanded[cell] = "water" THEN 100000 ELSE 0]
        s1 == SmoothOnce(expanded)
        v2 == SmoothedVolume(expanded, v1)
        s2 == SmoothOnce(s1)
        v3 == SmoothedVolume(s1, v2)
        s3 == SmoothOnce(s2)
        v4 == SmoothedVolume(s2, v3)
    IN  [cell \in Cells |-> IF g[cell] # s3[cell] THEN 0 ELSE v4[cell]]

\* The draws of _generate_terrain as pairs: the elevations and the raw types
TerrainDraws ==
    {[elevation |-> [cell \in Cells |-> Elevation(cell)], raw |-> raw] : raw \in RawGrids}

\* Draws for the hydrology: as above, but cell (0, 2) draws elevation 0 and land,
\* so that it lies below its neighbours and below the flood-fill level 0.2
LowElevation(cell) == IF cell = <<0, 2>> THEN 0 ELSE Elevation(cell)

LowRawDraw(cell) == IF cell = <<0, 2>> THEN "land" ELSE RawDraw(cell)

LowTerrainDraws ==
    {d \in {[elevation |-> [cell \in Cells |-> LowElevation(cell)],
              raw |-> [cell \in Cells |-> LowRawDraw(cell)]]} :
        \A cell \in Cells : d.raw[cell] \in ChooseTerrainType(d.elevation[cell])}

\* Draws for a barren terrain: the two middle columns draw a low elevation and
\* water, the outer columns a high elevation and land, which the shorelines
\* turn to sand. No cell is passable and no plant can grow.
BarrenElevation(cell) == IF cell[2] \in {1, 2} THEN 10 ELSE 60

BarrenRawDraw(cell) == IF cell[2] \in {1, 2} THEN "water" ELSE "land"

BarrenTerrainDraws ==
    {d \in {[elevation |-> [cell \in Cells |-> BarrenElevation(cell)],
              raw |-> [cell \in Cells |-> BarrenRawDraw(cell)]]} :
        \A cell \in Cells : d.raw[cell] \in ChooseTerrainType(d.elevation[cell])}

\* The grids construction ends with when every cell draws a high elevation and
\* land: no water, so no sand either.
DryGrids ==
    UNION {ConstructTerrain(raw) :
              raw \in {r \in {[cell \in Cells |-> "land"]} :
                          \A cell \in Cells : r[cell] \in ChooseTerrainType(60)}}

-----------------------------------------------------------------------------
(* Season and temperature                                                  *)

\* Ecosystem.seasons (_initialize_environment_attributes)
seasons ==
    << [name |-> "Spring", temperature_modifier |-> 5000,
        food_growth_rate |-> 1200, predator_efficiency |-> 1000],
       [name |-> "Summer", temperature_modifier |-> 10000,
        food_growth_rate |-> 1000, predator_efficiency |-> 1200],
       [name |-> "Autumn", temperature_modifier |-> 0,
        food_growth_rate |-> 800, predator_efficiency |-> 1000],
       [name |-> "Winter", temperature_modifier |-> -5000,
        food_growth_rate |-> 500, predator_efficiency |-> 1100] >>

\* 10000 * sin(d degrees), d in 0 .. 90, rounded
SinTable ==
    << 0, 175, 349, 523, 698, 872, 1045, 1219, 1392, 1564, 1736, 1908, 2079,
       2250, 2419, 2588, 2756, 2924, 3090, 3256, 3420, 3584, 3746, 3907, 4067,
       4226, 4384, 4540, 4695, 4848, 5000, 5150, 5299, 5446, 5592, 5736, 5878,
       6018, 6157, 6293, 6428, 6561, 6691, 6820, 6947, 7071, 7193, 7314, 7431,
       7547, 7660, 7771, 7880, 7986, 8090, 8192, 8290, 8387, 8480, 8572, 8660,
       8746, 8829, 8910, 8988, 9063, 9135, 9205, 9272, 9336, 9397, 9455, 9511,
       9563, 9613, 9659, 9703, 9744, 9781, 9816, 9848, 9877, 9903, 9925, 9945,
       9962, 9976, 9986, 9994, 9998, 10000 >>

\* 10000 * sin(pi * d / 180) for a natural number d
Sin10000(d) ==
    LET m == d % 360 IN
    IF m <= 90 THEN SinTable[m + 1]
    ELSE IF m <= 180 THEN SinTable[180 - m + 1]
    ELSE IF m <= 270 THEN 0 - SinTable[m - 180 + 1]
    ELSE 0 - SinTable[360 - m + 1]

\* _adjust_temperature as it would be without the test of the manual control
AdjustTemperatureAlways(c, current, manual) == Sin10000(c) + 20000

\* _adjust_temperature: 10 * sin(pi * cycle / 180) + 20 unless under manual control
AdjustTemperature(c, current, manual) ==
    IF ~manual THEN Sin10000(c) + 20000 ELSE current

-----------------------------------------------------------------------------
(* Animal, Herbivore, Predator: constructors and methods                   *)

\* Animal.__init__, _initialize_basic_attributes, _initialize_biological_attributes
Animal(row, col, speed, sex, species, age, max_age, fertility) ==
    [species |-> species, row |-> row, col |-> col, speed |-> speed, sex |-> sex,
     hunger |-> 0, thirst |-> 0, energy |-> 100,
     age |-> age, is_adult |-> FALSE, is_dead |-> FALSE,
     cause_of_death |-> "None", decay |-> 100, max_age |-> max_age,
     body_temperature |-> 37000, fertility |-> fertility,
     gestation_period |-> 0, reproduction_cooldown |-> 0, is_pregnant |-> FALSE]

\* Herbivore.__init__
Herbivore(row, col, speed, sex, age, max_age, fertility) ==
    [Animal(row, col, speed, sex, "Herbivore", age, max_age, fertility)
        EXCEPT !.gestation_period = 40]

\* _calculate_hunting_success_rate as it would be with an optimal speed of 0.5
CalculateHuntingSuccessRateSlow(speed) ==
    LET base_rate == 200
        speed_factor == speed * 100 - 500
    IN  Min(base_rate + speed_factor, 1000)

\* Predator._calculate_hunting_success_rate: min(0.2 + (speed - 3.5) / 1.0, 1.0)
CalculateHuntingSuccessRate(speed) ==
    LET base_rate == 200
        speed_factor == speed * 100 - 3500
    IN  Min(base_rate + speed_factor, 1000)

\* Predator.__init__
Predator(row, col, speed, sex, age, max_age, fertility) ==
    [hunting_success_rate |-> CalculateHuntingSuccessRate(speed)]
        @@ Animal(row, col, speed, sex, "Predator", age, max_age, fertility)

\* Animal.undergo_decay
UndergoDecay(a) ==
    IF a.is_dead THEN [a EXCEPT !.decay = Max(a.decay - 5, 0)] ELSE a

\* Animal._age_animal
AgeAnimal(a) ==
    LET b == [a EXCEPT !.age = a.age + 1] IN
    IF b.age >= 20 /\ ~b.is_adult THEN [b EXCEPT !.is_adult = TRUE] ELSE b

\* Animal._increase_hunger
IncreaseHunger(a) == [a EXCEPT !.hunger = Min(a.hunger + 10, 100)]

\* Animal._increase_thirst
IncreaseThirst(a) == [a EXCEPT !.thirst = Min(a.thirst + 10, 100)]

\* Animal.die as it would be without the test of is_dead
DieAgain(a, cause) == [a EXCEPT !.is_dead = TRUE, !.cause_of_death = cause]

\* Animal.die
Die(a, cause) ==
    IF ~a.is_dead THEN [a EXCEPT !.is_dead = TRUE, !.cause_of_death = cause] ELSE a

\* _check_death_conditions as it would be if the body temperature were checked
\* before thirst
CheckDeathConditionsHeatFirst(a) ==
    IF a.age >= a.max_age THEN Die(a, "Old Age")
    ELSE IF a.hunger >= 100 THEN Die(a, "Starvation")
    ELSE IF a.body_temperature >= 42000 THEN Die(a, "Hyperthermia")
    ELSE IF a.thirst >= 100 THEN Die(a, "Dehydration")
    ELSE IF a.energy <= 0 THEN Die(a, "Exhaustion")
    ELSE a

\* _check_death_conditions as it would be if thirst were checked before hunger
CheckDeathConditionsThirstFirst(a) ==
    IF a.age >= a.max_age THEN Die(a, "Old Age")
    ELSE IF a.thirst >= 100 THEN Die(a, "Dehydration")
    ELSE IF a.hunger >= 100 THEN Die(a, "Starvation")
    ELSE IF a.body_temperature >= 42000 THEN Die(a, "Hyperthermia")
    ELSE IF a.energy <= 0 THEN Die(a, "Exhaustion")
    ELSE a

\* Animal._check_death_conditions
CheckDeathConditions(a) ==
    IF a.age >= a.max_age THEN Die(a, "Old Age")
    ELSE IF a.hunger >= 100 THEN Die(a, "Starvation")
    ELSE IF a.thirst >= 100 THEN Die(a, "Dehydration")
    ELSE IF a.body_temperature >= 42000 THEN Die(a, "Hyperthermia")
    ELSE IF a.energy <= 0 THEN Die(a, "Exhaustion")
    ELSE a

\* Animal._regenerate_energy
RegenerateEnergy(a) ==
    IF a.hunger < 100 THEN [a EXCEPT !.energy = Min(a.energy + 5, 100)] ELSE a

\* Animal.handle_vital_stats
HandleVitalStats(a) ==
    RegenerateEnergy(CheckDeathConditions(IncreaseThirst(IncreaseHunger(AgeAnimal(a)))))

\* Animal.feed (Herbivore.feed passes a Plant on to it)
Feed(a, nutrition) ==
    [a EXCEPT !.hunger = Max(a.hunger - nutrition, 0),
              !.energy = Max(a.energy + nutrition, 0)]

\* Ecosystem.handle_drinking
HandleDrinking(a, g) ==
    IF ~a.is_dead /\ IsAdjacentToWater4(g, a.row, a.col)
    THEN [a EXCEPT !.thirst = Max(a.thirst - 50, 0)] ELSE a

\* _consume_prey as it would be if it reduced the hunger only
ConsumePreyHungerOnly(p) == [p EXCEPT !.hunger = Max(p.hunger - 80, 0)]

\* _consume_prey as it would be without the floors at 0
ConsumePreyUnfloored(p) ==
    [p EXCEPT !.hunger = p.hunger - 80, !.thirst = p.thirst - 50]

\* Predator._consume_prey, the predator's side
ConsumePrey(p) ==
    [p EXCEPT !.hunger = Max(p.hunger - 80, 0), !.thirst = Max(p.thirst - 50, 0)]

\* Predator._is_near and Ecosystem._is_adjacent
IsNear(a, b) == Abs(a.row - b.row) <= 1 /\ Abs(a.col - b.col) <= 1

-----------------------------------------------------------------------------
(* Movement and the occupancy index                                        *)

\* _get_valid_moves: the 3x3 block around (row, col), the cell itself included,
\* inside the grid, on land or vegetation; the shuffle leaves the set as it is
GetValidMoves(g, row, col) ==
    {m \in {<<row + i, col + j>> : i \in {-1, 0, 1}, j \in {-1, 0, 1}} :
        /\ InGrid(m[1], m[2])
        /\ g[m] \in {"land", "vegetation"}}

\* the elements of a sequence
Range(s) == {s[i] : i \in 1 .. Len(s)}

\* is_tile_occupied_by_same_species
IsTileOccupiedBySameSpecies(index, an, tile, species) ==
    \E i \in 1 .. Len(index[tile]) : an[index[tile][i]].species = species

\* is_tile_occupied
IsTileOccupied(an, roster, row, col) ==
    \E id \in Range(roster) : an[id].row = row /\ an[id].col = col

\* _is_within_radius: sqrt(dr^2 + dc^2) <= radius
IsWithinRadius(a, b, radius) ==
    (a.row - b.row) * (a.row - b.row) + (a.col - b.col) * (a.col - b.col)
        <= radius * radius

\* get_nearby_animals(animal, radius=5): adults of both rosters, the animal excluded
GetNearbyAnimals(an, hs, ps, id) ==
    {o \in Range(hs \o ps) :
        o # id /\ an[o].is_adult /\ IsWithinRadius(an[id], an[o], 5)}

RECURSIVE SumRows(_, _)
SumRows(an, S) ==
    IF S = {} THEN 0
    ELSE LET x == CHOOSE y \in S : TRUE IN an[x].row + SumRows(an, S \ {x})

RECURSIVE SumCols(_, _)
SumCols(an, S) ==
    IF S = {} THEN 0
    ELSE LET x == CHOOSE y \in S : TRUE IN an[x].col + SumCols(an, S \ {x})

\* |pos - centre| of _choose_new_location, times the number of nearby adults
HerdDistance(an, nearby, pos) ==
    LET n == Cardinality(nearby) IN
    Abs(pos[1] * n - SumRows(an, nearby)) + Abs(pos[2] * n - SumCols(an, nearby))

\* _choose_new_location: the cells the choice can return. A juvenile with
\* nearby adults takes a cell nearest their centre (the first minimum of the
\* shuffled list, so any of the minima); every other animal any cell.
ChooseNewLocation(an, a, valid_moves, nearby) ==
    IF nearby # {} /\ ~a.is_adult
    THEN {m \in valid_moves :
            \A o \in valid_moves : HerdDistance(an, nearby, m) <= HerdDistance(an, nearby, o)}
    ELSE valid_moves

\* Animal.move: the cells the animal can end on, none when it does not move
AnimalMoveTargets(an, index, a, valid_moves, nearby) ==
    IF valid_moves # {} /\ a.energy > 0 /\ ~a.is_dead
    THEN ChooseNewLocation(an, a,
            {m \in valid_moves : ~IsTileOccupiedBySameSpecies(index, an, m, a.species)},
            nearby)
    ELSE {}

\* list.remove as it would be if it left the list as it is
RemoveNothing(s, x) == s

\* list.remove: the sequence without the first occurrence of x
RECURSIVE RemoveFirst(_, _)
RemoveFirst(s, x) ==
    IF s = <<>> THEN <<>>
    ELSE IF Head(s) = x THEN Tail(s)
    ELSE <<Head(s)>> \o RemoveFirst(Tail(s), x)

\* the index after Animal.move as it would be without the removal from the old tile
IndexAfterMoveKeepingOld(index, id, old, new) ==
    [index EXCEPT ![new] = Append(index[new], id)]

\* Animal.move, the index: remove from the old tile if listed there, append to the new
IndexAfterMove(index, id, old, new) ==
    LET removed == IF id \in Range(index[old])
                   THEN [index EXCEPT ![old] = RemoveFirst(index[old], id)]
                   ELSE index
    IN  [removed EXCEPT ![new] = Append(removed[new], id)]

\* Predator.move: the cells the predator can end on, none when it does not move
PredatorMoveTargets(a, valid_moves) ==
    IF valid_moves # {} /\ a.energy > 0 /\ ~a.is_dead THEN valid_moves ELSE {}

-----------------------------------------------------------------------------
(* Reproduction                                                            *)

\* Animal.can_reproduce as it would be without the fertility threshold
AnimalCanReproduceAnyFertility(a) ==
    /\ a.sex = "F"
    /\ ~a.is_pregnant
    /\ a.reproduction_cooldown <= 0
    /\ a.age > 20
    /\ a.age < 50
    /\ a.hunger < 20
    /\ a.thirst < 20

\* Animal.can_reproduce
AnimalCanReproduce(a) ==
    /\ a.sex = "F"
    /\ ~a.is_pregnant
    /\ a.reproduction_cooldown <= 0
    /\ a.age > 20
    /\ a.age < 50
    /\ a.hunger < 20
    /\ a.thirst < 20
    /\ a.fertility >= 80

\* Herbivore.can_reproduce
HerbivoreCanReproduce(a) == AnimalCanReproduce(a) /\ a.is_adult

\* Animal._meets_reproduction_conditions
MeetsReproductionConditions(a, other) ==
    /\ a.is_adult /\ other.is_adult /\ a.species = other.species
    /\ a.sex = "F" /\ ~(other.sex = "F") /\ ~a.is_dead /\ ~other.is_dead

\* Animal._initiate_pregnancy
InitiatePregnancy(a) == [a EXCEPT !.gestation_period = 100, !.is_pregnant = TRUE]

\* Animal.reproduce, which predators inherit
AnimalReproduce(a, other) ==
    IF MeetsReproductionConditions(a, other) THEN InitiatePregnancy(a) ELSE a

\* Herbivore.reproduce
HerbivoreReproduce(a, other) ==
    IF HerbivoreCanReproduce(a) /\ other.is_adult /\ a.species = other.species
       /\ a.sex # other.sex
    THEN [a EXCEPT !.is_pregnant = TRUE, !.gestation_period = 20]
    ELSE a

\* animal.reproduce(other), by the class of the animal
Reproduce(a, other) ==
    IF a.species = "Herbivore" THEN HerbivoreReproduce(a, other)
    ELSE AnimalReproduce(a, other)

\* _can_reproduce_together as it would be without the distance test
CanReproduceTogetherAnywhere(a, b) ==
    a.species = b.species /\ a.sex # b.sex

\* _can_reproduce_together
CanReproduceTogether(a, b) ==
    /\ a.species = b.species /\ a.sex # b.sex
    /\ Abs(a.row - b.row) <= 1 /\ Abs(a.col - b.col) <= 1

\* handle_reproduction: the loop over _get_same_species(animal) from position k
\* on; reproduce returns None on every path, so no child is ever appended to
\* new_animals and the loop never breaks
RECURSIVE HandleReproductionFrom(_, _, _, _, _)
HandleReproductionFrom(an, roster, id, a, k) ==
    IF k > Len(roster) THEN a
    ELSE LET o == roster[k] IN
         IF o # id /\ CanReproduceTogether(a, an[o])
         THEN HandleReproductionFrom(an, roster, id, Reproduce(a, an[o]), k + 1)
         ELSE HandleReproductionFrom(an, roster, id, a, k + 1)

\* _get_same_species: the roster of the animal's class
GetSameSpecies(hs, ps, a) == IF a.species = "Herbivore" THEN hs ELSE ps

\* handle_reproduction(animal, new_animals): the animal afterwards
HandleReproduction(an, hs, ps, id, a) ==
    HandleReproductionFrom(an, GetSameSpecies(hs, ps, a), id, a, 1)

\* _calculate_fertility as it would be without the cap at 10 and the floor at 0
CalculateFertilityUnbounded(a) ==
    IF 7 <= a.reproductive_day /\ a.reproductive_day <= 14
    THEN a.fertility + 10
    ELSE a.fertility - 10

\* Animal._calculate_fertility (fertility in 1/10)
CalculateFertility(a) ==
    IF 7 <= a.reproductive_day /\ a.reproductive_day <= 14
    THEN Min(a.fertility + 10, 100)
    ELSE Max(a.fertility - 10, 0)

\* Animal.update_fertility reads self.reproductive_day, which no constructor
\* sets: for a female the read raises AttributeError unless the attribute was
\* assigned from outside
UpdateFertilityRaises(a) == a.sex = "F" /\ "reproductive_day" \notin DOMAIN a

\* Animal.update_fertility
UpdateFertility(a) ==
    IF a.sex = "F"
    THEN LET b == [a EXCEPT !.reproductive_day = (a.reproductive_day + 1) % 28]
         IN  [b EXCEPT !.fertility = CalculateFertility(b)]
    ELSE a

\* Animal._reset_post_birth_conditions
ResetPostBirthConditions(a) ==
    [a EXCEPT !.is_pregnant = FALSE, !.reproduction_cooldown = 300]

\* the outcome of a call on an animal: the animal afterwards and the exception
\* that left the call, or "none"
Outcome(a, exception) == [animal |-> a, raised |-> exception]

\* Animal.give_birth and Herbivore.give_birth, which have the same body: past
\* the guard the first statement reads the name other, which is neither a
\* parameter nor a global, so NameError leaves the call before the child is
\* built, before add_animal and before _reset_post_birth_conditions
GiveBirth(a) ==
    IF a.gestation_period <= 0 /\ a.is_pregnant
    THEN Outcome(a, "NameError")
    ELSE Outcome(a, "none")

\* the countdown both update methods end with: gestation, birth, cooldown
Countdown(a) ==
    LET b == IF a.is_pregnant
             THEN [a EXCEPT !.gestation_period = a.gestation_period - 1] ELSE a
        born == IF b.is_pregnant /\ b.gestation_period <= 0
                THEN GiveBirth(b) ELSE Outcome(b, "none")
        c == born.animal
    IN  IF born.raised # "none" THEN born
        ELSE IF c.reproduction_cooldown > 0
        THEN Outcome([c EXCEPT !.reproduction_cooldown = c.reproduction_cooldown - 1],
                     "none")
        ELSE Outcome(c, "none")

\* Animal.update; defecate and urinate only write the waste attributes
AnimalUpdate(a) ==
    IF UpdateFertilityRaises(a) THEN Outcome(a, "AttributeError")
    ELSE LET b == UpdateFertility(a)
             c == IF b.age >= 20 /\ ~b.is_adult THEN [b EXCEPT !.is_adult = TRUE] ELSE b
         IN  Countdown(c)

\* Herbivore.update: Animal.update, then the countdown once more
HerbivoreUpdate(a) ==
    LET first == AnimalUpdate(a)
    IN  IF first.raised # "none" THEN first ELSE Countdown(first.animal)

\* animal.update(ecosystem), by the class of the animal
Update(a) == IF a.species = "Herbivore" THEN HerbivoreUpdate(a) ELSE AnimalUpdate(a)

-----------------------------------------------------------------------------
(* Construction: Ecosystem.__init__                                        *)

\* The draws of the constructors the model enumerates. Sex and starting age
\* are drawn once per animal: animals with an even id are female and start at
\* age 40, animals with an odd id are male and start at age 0.
SexChoices(id) == IF id % 2 = 0 THEN {"F"} ELSE {"M"}   \* random.choice(['M', 'F'])
AgeChoices(id) == IF id % 2 = 0 THEN {40} ELSE {0}      \* random.randint(20, 40) or 0
MaxAgeChoices == {50}               \* random.randint(50, 100)
SpeedChoices == {10}                \* random.uniform(0.5, 1.5)
FertilityChoices == {10}            \* random.uniform(0.5, 1.5)
RollChoices == {0, 100}             \* random.randint(0, 100)

\* initial_herbivore_count, initial_predator_count
PopulationChoices == {<<2, 1>>}

NonWater(g) == {cell \in Cells : g[cell] # "water"}

\* _initialize_animals, the herbivores: self.herbivores is still empty while the
\* list is built, so _generate_valid_location accepts every cell that is not water
HerbivoreDraws(g, id) ==
    {Herbivore(cell[1], cell[2], sp, sx, ag, ma, f) :
        cell \in NonWater(g), sp \in SpeedChoices, sx \in SexChoices(id),
        ag \in AgeChoices(id), ma \in MaxAgeChoices, f \in FertilityChoices}

\* _initialize_animals, the predators: self.predators is still empty while the
\* list is built, so only the herbivores' cells are refused
PredatorDraws(g, hs, id, speeds) ==
    {Predator(cell[1], cell[2], sp, sx, ag, ma, f) :
        cell \in {n \in NonWater(g) :
                    ~\E h \in DOMAIN hs : hs[h].row = n[1] /\ hs[h].col = n[2]},
        sp \in speeds, sx \in SexChoices(id),
        ag \in AgeChoices(id), ma \in MaxAgeChoices, f \in FertilityChoices}

\* the animals a list comprehension of _initialize_animals can build, by id
Drawn(ids, draws(_)) ==
    {f \in [ids -> UNION {draws(id) : id \in ids}] : \A id \in ids : f[id] \in draws(id)}

\* the ids animal_id_counter hands out, as a roster
IdSeq(first, n) == [i \in 1 .. n |-> first + i - 1]

\* what Ecosystem(GridRows, GridCols, herbivore_count, predator_count) can
\* build: terrain and animals, with the predators' speed drawn from speeds
Ecosystems(draws, populations, speeds) ==
    UNION {UNION {UNION {UNION {
        {[grid |-> g, elevation |-> d.elevation,
          water_volume |-> ConstructVolume(d.raw, g),
          animals |-> hs @@ ps,
          herbivores |-> IdSeq(0, counts[1]),
          predators |-> IdSeq(counts[1], counts[2]),
          args |-> [rows |-> GridRows, cols |-> GridCols,
                    initial_herbivore_count |-> counts[1],
                    initial_predator_count |-> counts[2]]] :
            ps \in Drawn(counts[1] .. counts[1] + counts[2] - 1,
                         LAMBDA id : PredatorDraws(g, hs, id, speeds))} :
            hs \in Drawn(0 .. counts[1] - 1, LAMBDA id : HerbivoreDraws(g, id))} :
            counts \in populations} :
            g \in ConstructTerrain(d.raw)} :
            d \in draws}

\* the attributes _initialize_environment_attributes and __init__ assign
Defaults ==
    [precipitation_level |-> 0, manual_temperature_control |-> FALSE,
     ambient_temperature |-> 20000]

\* the state after construction: an ecosystem built from the draws, with the
\* environment attributes of one of the settings
ConstructedWith(draws, populations, speeds, settings) ==
    \E e \in Ecosystems(draws, populations, speeds), setting \in settings :
        /\ grid = e.grid
        /\ elevation = e.elevation
        /\ water_volume = e.water_volume
        /\ animals = e.animals
        /\ herbivores = e.herbivores
        /\ predators = e.predators
        /\ args = e.args
        /\ plants = <<>>
        /\ animals_on_tile = [cell \in Cells |-> <<>>]
        /\ cycle = 0
        /\ ambient_temperature = setting.ambient_temperature
        /\ precipitation_level = setting.precipitation_level
        /\ manual_temperature_control = setting.manual_temperature_control
        /\ current_season = 1
        /\ season_cycle = 0
        /\ herbivore_population_data = <<>>
        /\ predator_population_data = <<>>
        /\ plant_population_data = <<>>
        /\ pc = "environment"
        /\ idx = 0
        /\ remaining = <<>>
        /\ raised = "none"
        /\ calls = 0

\* the state Ecosystem(rows, cols, herbivore_count, predator_count) returns,
\* with the predators' speed drawn from speeds
Constructed(populations, speeds) ==
    ConstructedWith(TerrainDraws, populations, speeds, {Defaults})

\* Ecosystem.__init__ as main calls it: _initialize_animals draws every speed
\* from [0.5, 1.5]
Init == Constructed(PopulationChoices, SpeedChoices)

-----------------------------------------------------------------------------
(* The tick: Ecosystem.update, one action per stage and per roster entry   *)

\* Season.apply_seasonal_effects, the plants: nutrition *= food_growth_rate / 2
SeasonPlants(ps, season) ==
    [i \in 1 .. Len(ps) |->
        [ps[i] EXCEPT !.nutrition = (ps[i].nutrition * season.food_growth_rate) \div 2000]]

\* Season.apply_seasonal_effects, the predators of the roster:
\* hunting_success_rate *= predator_efficiency
SeasonPredators(an, roster, season) ==
    [id \in DOMAIN an |->
        IF id \in Range(roster)
        THEN [an[id] EXCEPT !.hunting_success_rate =
                (an[id].hunting_success_rate * season.predator_efficiency) \div 1000]
        ELSE an[id]]

\* _handle_extreme_heat
HandleExtremeHeat(g, temperature) ==
    IF temperature >= 100000
    THEN [cell \in Cells |-> IF g[cell] = "water" THEN "land" ELSE g[cell]]
    ELSE g

\* _handle_extreme_heat, the water volumes: Terrain('land', elevation) has the
\* default volume 0
HeatVolume(g, volume, temperature) ==
    IF temperature >= 100000
    THEN [cell \in Cells |-> IF g[cell] = "water" THEN 0 ELSE volume[cell]]
    ELSE volume

\* a terrain: the terrain types and the water volumes of the cells
Terrain(g, volume) == [grid |-> g, water_volume |-> volume]

\* _flood_fill, one neighbour of the popped cell: a cell that is not water and
\* lies below elevation 0.2 becomes Terrain('water', elevation), with the
\* default volume 0, and is pushed
FloodNeighbour(fill, cell, d) ==
    LET n == <<cell[1] + d[1], cell[2] + d[2]>>
        t == fill.terrain
    IN  IF InGrid(n[1], n[2]) /\ t.grid[n] # "water" /\ elevation[n] * 10 < 2
        THEN [terrain |-> Terrain([t.grid EXCEPT ![n] = "water"],
                                  [t.water_volume EXCEPT ![n] = 0]),
              stack |-> Append(fill.stack, n)]
        ELSE fill

\* _flood_fill(row, col, 200), the loop: pop a cell, add 200 / 4 to its volume,
\* visit its four neighbours
RECURSIVE FloodFill(_)
FloodFill(fill) ==
    IF fill.stack = <<>> THEN fill.terrain
    ELSE LET cell == fill.stack[Len(fill.stack)]
             popped == [terrain |->
                            Terrain(fill.terrain.grid,
                                    [fill.terrain.water_volume EXCEPT ![cell] = @ + 50000]),
                        stack |-> SubSeq(fill.stack, 1, Len(fill.stack) - 1)]
         IN  FloodFill(FloodNeighbour(FloodNeighbour(FloodNeighbour(
                 FloodNeighbour(popped, cell, <<-1, 0>>), cell, <<1, 0>>),
                 cell, <<0, -1>>), cell, <<0, 1>>))

\* _precipitate, the loop over the cells in row-major order, from cell k on:
\* every cell that is water when the loop reaches it starts a flood fill
RECURSIVE FloodFrom(_, _)
FloodFrom(t, k) ==
    IF k >= GridRows * GridCols THEN t
    ELSE IF t.grid[CellAt(k)] = "water"
    THEN FloodFrom(FloodFill([terrain |-> t, stack |-> <<CellAt(k)>>]), k + 1)
    ELSE FloodFrom(t, k + 1)

\* _get_neighbors as the list it is: the 3x3 block in row-major order, clipped
NeighborSeq(r, c) ==
    SelectSeq(<< <<r - 1, c - 1>>, <<r - 1, c>>, <<r - 1, c + 1>>,
                 <<r, c - 1>>, <<r, c>>, <<r, c + 1>>,
                 <<r + 1, c - 1>>, <<r + 1, c>>, <<r + 1, c + 1>> >>,
              LAMBDA n : InGrid(n[1], n[2]))

\* adjust_water_volume, the body of the inner loop, as it would be if a target
\* became water only above the volume 20
MoveWaterAboveTwenty(t, cell, n) ==
    IF elevation[n] < elevation[cell]
    THEN LET water_movement == Min(t.water_volume[cell] \div 20, t.water_volume[cell])
             moved == [t.water_volume EXCEPT ![n] = @ + water_movement,
                                             ![cell] = @ - water_movement]
             dried == moved[cell] < 10000
             g1 == IF dried THEN [t.grid EXCEPT ![cell] = "land"] ELSE t.grid
             v1 == IF dried THEN [moved EXCEPT ![cell] = 0] ELSE moved
         IN  IF v1[n] > 20000 /\ g1[n] # "water"
             THEN Terrain([g1 EXCEPT ![n] = "water"], v1)
             ELSE Terrain(g1, v1)
    ELSE t

\* adjust_water_volume, the body of the inner loop: 5% of the source's volume
\* moves to a lower neighbour; a source left below 10 becomes
\* Terrain('land', elevation) with volume 0; a target above 10 that is not
\* water becomes water and keeps its volume
MoveWater(t, cell, n) ==
    IF elevation[n] < elevation[cell]
    THEN LET water_movement == Min(t.water_volume[cell] \div 20, t.water_volume[cell])
             moved == [t.water_volume EXCEPT ![n] = @ + water_movement,
                                             ![cell] = @ - water_movement]
             dried == moved[cell] < 10000
             g1 == IF dried THEN [t.grid EXCEPT ![cell] = "land"] ELSE t.grid
             v1 == IF dried THEN [moved EXCEPT ![cell] = 0] ELSE moved
         IN  IF v1[n] > 10000 /\ g1[n] # "water"
             THEN Terrain([g1 EXCEPT ![n] = "water"], v1)
             ELSE Terrain(g1, v1)
    ELSE t

\* adjust_water_volume, the inner loop over the neighbours from position j on
RECURSIVE AdjustCell(_, _, _, _)
AdjustCell(t, cell, neighbors, j) ==
    IF j > Len(neighbors) THEN t
    ELSE AdjustCell(MoveWater(t, cell, neighbors[j]), cell, neighbors, j + 1)

\* adjust_water_volume, the outer loop in row-major order from cell k on
RECURSIVE AdjustWaterVolume(_, _)
AdjustWaterVolume(t, k) ==
    IF k >= GridRows * GridCols THEN t
    ELSE IF t.grid[CellAt(k)] = "water"
    THEN AdjustWaterVolume(
            AdjustCell(t, CellAt(k), NeighborSeq(CellAt(k)[1], CellAt(k)[2]), 1), k + 1)
    ELSE AdjustWaterVolume(t, k + 1)

\* _precipitate with the draw random.randint(0, 100)
Precipitate(t, roll, level) ==
    IF roll < level THEN AdjustWaterVolume(FloodFrom(t, 0), 0) ELSE t

\* _update_season_cycle as it would be if the season changed only once the
\* counter had passed the duration
SeasonChangeLate(counter) == counter + 1 > season_duration

\* _update_season_cycle: whether the incremented counter calls _change_season
SeasonChange(counter) == counter + 1 >= season_duration

\* update_environment: _adjust_temperature, _precipitate, _handle_extreme_heat,
\* _update_season_cycle with _change_season
EnvironmentStep ==
    /\ pc = "environment"
    /\ \E roll \in RollChoices :
        LET temperature == AdjustTemperature(cycle, ambient_temperature,
                                             manual_temperature_control)
            wet == Precipitate(Terrain(grid, water_volume), roll, precipitation_level)
            change == SeasonChange(season_cycle)
            next == (current_season % Len(seasons)) + 1
        IN  /\ grid' = HandleExtremeHeat(wet.grid, temperature)
            /\ water_volume' = HeatVolume(wet.grid, wet.water_volume, temperature)
            /\ IF change
               THEN /\ current_season' = next
                    /\ season_cycle' = 0
                    /\ ambient_temperature' = temperature + seasons[next].temperature_modifier
                    /\ plants' = SeasonPlants(plants, seasons[next])
                    /\ animals' = SeasonPredators(animals, predators, seasons[next])
               ELSE /\ current_season' = current_season
                    /\ season_cycle' = season_cycle + 1
                    /\ ambient_temperature' = temperature
                    /\ plants' = plants
                    /\ animals' = animals
    /\ pc' = "herbivores"
    /\ idx' = 1
    /\ remaining' = <<>>
    /\ UNCHANGED <<herbivores, predators, animals_on_tile, cycle,
                   herbivore_population_data, predator_population_data,
                   plant_population_data, manual_temperature_control, raised, calls>>
    /\ UNCHANGED fixed

\* the environment step of a tick, for the ticks the model explores
UpdateEnvironment == cycle < MaxTicks /\ EnvironmentStep

\* handle_decay: the animal afterwards
HandleDecay(a) == IF a.is_dead THEN UndergoDecay(a) ELSE a

\* handle_decay: whether it appends the animal to the remaining list
DecayKeeps(a) == a.is_dead /\ UndergoDecay(a).decay > 0

\* _feed_herbivore: the herbivore afterwards; Plant() has nutrition 30
FeedHerbivore(a, g) ==
    IF g[<<a.row, a.col>>] = "vegetation" THEN Feed(a, 30) ELSE a

\* _feed_herbivore: the grid afterwards
GridAfterFeeding(a, g) ==
    IF g[<<a.row, a.col>>] = "vegetation"
    THEN [g EXCEPT ![<<a.row, a.col>>] = "land"] ELSE g

\* _feed_herbivore: the water volumes afterwards; Terrain('land', elevation) has
\* the default volume 0
VolumeAfterFeeding(a, g, volume) ==
    IF g[<<a.row, a.col>>] = "vegetation"
    THEN [volume EXCEPT ![<<a.row, a.col>>] = 0] ELSE volume

\* update_herbivores: the body of the loop for the herbivore at position idx
UpdateHerbivore ==
    /\ pc = "herbivores"
    /\ idx <= Len(herbivores)
    /\ LET id == herbivores[idx]
           kept == IF DecayKeeps(animals[id]) THEN Append(remaining, id) ELSE remaining
           vital == HandleVitalStats(HandleDecay(animals[id]))
       IN  IF vital.is_dead
           THEN /\ animals' = [animals EXCEPT ![id] = vital]
                /\ remaining' = kept
                /\ UNCHANGED <<grid, water_volume, animals_on_tile>>
           ELSE LET fed == FeedHerbivore(vital, grid)
                    g == GridAfterFeeding(vital, grid)
                    drunk == HandleDrinking(fed, g)
                    an == [animals EXCEPT ![id] = drunk]
                    targets == AnimalMoveTargets(an, animals_on_tile, drunk,
                                  GetValidMoves(g, drunk.row, drunk.col),
                                  GetNearbyAnimals(an, herbivores, predators, id))
                IN  /\ grid' = g
                    /\ water_volume' = VolumeAfterFeeding(vital, grid, water_volume)
                    /\ remaining' = Append(kept, id)
                    /\ IF targets = {}
                       THEN /\ animals' = [an EXCEPT ![id] =
                                   HandleReproduction(an, herbivores, predators, id, drunk)]
                            /\ animals_on_tile' = animals_on_tile
                       ELSE \E t \in targets :
                              LET moved == [drunk EXCEPT !.row = t[1], !.col = t[2]]
                                  am == [an EXCEPT ![id] = moved]
                              IN  /\ animals' = [am EXCEPT ![id] =
                                        HandleReproduction(am, herbivores, predators, id, moved)]
                                  /\ animals_on_tile' =
                                        IndexAfterMove(animals_on_tile, id,
                                                       <<drunk.row, drunk.col>>, t)
    /\ idx' = idx + 1
    /\ UNCHANGED <<herbivores, predators, plants, cycle, ambient_temperature,
                   current_season, season_cycle, herbivore_population_data,
                   predator_population_data, plant_population_data, pc,
                   manual_temperature_control, raised, calls>>
    /\ UNCHANGED fixed

\* update_herbivores, after the loop: self.herbivores = remaining + new_herbivores,
\* where new_herbivores is empty
FinishHerbivores ==
    /\ pc = "herbivores"
    /\ idx > Len(herbivores)
    /\ herbivores' = remaining
    /\ pc' = "predators"
    /\ idx' = 1
    /\ remaining' = <<>>
    /\ UNCHANGED <<grid, water_volume, animals, predators, plants, animals_on_tile, cycle,
                   ambient_temperature, current_season, season_cycle,
                   herbivore_population_data, predator_population_data,
                   plant_population_data, manual_temperature_control, raised, calls>>
    /\ UNCHANGED fixed

\* _feed_predator: some herbivore of the roster is adjacent and alive
PreyInReach(an, hs, p) == \E h \in Range(hs) : IsNear(p, an[h]) /\ ~an[h].is_dead

\* Predator._find_nearby_prey
FindNearbyPrey(an, hs, p) == {h \in Range(hs) : IsNear(p, an[h])}

\* Predator.hunt: whether random.random() < hunting_success_rate can come out so
HuntOutcomes(p) ==
    {success \in BOOLEAN :
        IF success THEN p.hunting_success_rate > 0 ELSE p.hunting_success_rate < 1000}

\* update_predators: the body of the loop for the predator at position idx
UpdatePredator ==
    /\ pc = "predators"
    /\ idx <= Len(predators)
    /\ LET id == predators[idx]
           vital == HandleVitalStats(animals[id])
       IN  IF vital.is_dead
           THEN /\ animals' = [animals EXCEPT ![id] = vital]
                /\ remaining' = remaining
                /\ herbivores' = herbivores
           ELSE LET targets == PredatorMoveTargets(vital,
                                  GetValidMoves(grid, vital.row, vital.col))
                IN  /\ remaining' = Append(remaining, id)
                    /\ \E t \in IF targets = {} THEN {<<vital.row, vital.col>>} ELSE targets :
                         LET moved == IF targets = {} THEN vital
                                      ELSE [vital EXCEPT !.row = t[1], !.col = t[2],
                                                         !.energy = vital.energy - 1]
                             drunk == HandleDrinking(moved, grid)
                         IN  IF PreyInReach(animals, herbivores, drunk)
                                /\ FindNearbyPrey(animals, herbivores, drunk) # {}
                             THEN \E prey \in FindNearbyPrey(animals, herbivores, drunk),
                                     success \in HuntOutcomes(drunk) :
                                    LET hunter == [drunk EXCEPT !.energy = drunk.energy - 20]
                                    IN  IF success
                                        THEN /\ animals' =
                                                  [animals EXCEPT
                                                      ![prey] = Die(animals[prey], "Predation"),
                                                      ![id] = ConsumePrey(hunter)]
                                             /\ herbivores' = RemoveFirst(herbivores, prey)
                                        ELSE /\ animals' = [animals EXCEPT ![id] = hunter]
                                             /\ herbivores' = herbivores
                             ELSE /\ animals' = [animals EXCEPT ![id] = drunk]
                                  /\ herbivores' = herbivores
    /\ idx' = idx + 1
    /\ UNCHANGED <<grid, water_volume, predators, plants, animals_on_tile, cycle, ambient_temperature,
                   current_season, season_cycle, herbivore_population_data,
                   predator_population_data, plant_population_data, pc,
                   manual_temperature_control, raised, calls>>
    /\ UNCHANGED fixed

\* update_predators, after the loop: self.predators = remaining_predators
FinishPredators ==
    /\ pc = "predators"
    /\ idx > Len(predators)
    /\ predators' = remaining
    /\ pc' = "plants"
    /\ idx' = 0
    /\ remaining' = <<>>
    /\ UNCHANGED <<grid, water_volume, animals, herbivores, plants, animals_on_tile, cycle,
                   ambient_temperature, current_season, season_cycle,
                   herbivore_population_data, predator_population_data,
                   plant_population_data, manual_temperature_control, raised, calls>>
    /\ UNCHANGED fixed

\* Plant.__init__
Plant == [nutrition |-> 30000, is_dead |-> FALSE]

\* Plant.handle_vital_stats with the ambient temperature update_plants hands it
PlantVitalStats(p, temperature) ==
    IF temperature >= 35000 THEN [p EXCEPT !.is_dead = TRUE] ELSE p

\* the elements of a sequence that satisfy Keep, in order
RECURSIVE SelectAlive(_)
SelectAlive(ps) ==
    IF ps = <<>> THEN <<>>
    ELSE IF ~Head(ps).is_dead THEN <<Head(ps)>> \o SelectAlive(Tail(ps))
    ELSE SelectAlive(Tail(ps))

\* update_plants
UpdatePlants(ps, temperature) ==
    SelectAlive([i \in 1 .. Len(ps) |-> PlantVitalStats(ps[i], temperature)])

\* _update_animal_body_temperature_and_plant_nutrition, the animals of the rosters
DriftBodyTemperature(an, hs, ps, temperature) ==
    [id \in DOMAIN an |->
        IF id \in Range(hs \o ps)
        THEN [an[id] EXCEPT !.body_temperature =
                an[id].body_temperature + (temperature - an[id].body_temperature) \div 100]
        ELSE an[id]]

\* _update_animal_body_temperature_and_plant_nutrition, the plants
DriftNutrition(ps, temperature) ==
    [i \in 1 .. Len(ps) |->
        [ps[i] EXCEPT !.nutrition = ps[i].nutrition + (temperature - 20000) \div 10]]

\* update_population_data: the animals of a roster that are not dead
Living(an, roster) == Cardinality({i \in 1 .. Len(roster) : ~an[roster[i]].is_dead})

\* update_population_data as it would be if a count were recorded only when it
\* differs from the last recorded one
UpdatePopulationDataOnChange(series, count) ==
    IF Len(series) > 0 /\ series[Len(series)] = count
    THEN series
    ELSE Append(series, count)

\* update_population_data, one series: the count is appended
UpdatePopulationData(series, count) == Append(series, count)

\* grow_plants, update_plants, _update_animal_body_temperature_and_plant_nutrition,
\* update_population_data and cycle += 1. Every land cell may turn to vegetation
\* with a new plant; the model lets the plant list grow up to MaxPlants.
FinishTick ==
    /\ pc = "plants"
    /\ \E grown \in SUBSET {cell \in Cells : grid[cell] = "land"} :
         /\ Len(plants) + Cardinality(grown) <= MaxPlants
         /\ grid' = [cell \in Cells |-> IF cell \in grown THEN "vegetation" ELSE grid[cell]]
         /\ water_volume' = [cell \in Cells |->
                                IF cell \in grown THEN 0 ELSE water_volume[cell]]
         /\ plants' = DriftNutrition(
                         UpdatePlants(plants \o [i \in 1 .. Cardinality(grown) |-> Plant],
                                      ambient_temperature),
                         ambient_temperature)
    /\ animals' = DriftBodyTemperature(animals, herbivores, predators, ambient_temperature)
    /\ herbivore_population_data' =
            UpdatePopulationData(herbivore_population_data, Living(animals, herbivores))
    /\ predator_population_data' =
            UpdatePopulationData(predator_population_data, Living(animals, predators))
    /\ plant_population_data' = UpdatePopulationData(plant_population_data, Len(plants'))
    /\ cycle' = cycle + 1
    /\ pc' = "environment"
    /\ UNCHANGED <<herbivores, predators, animals_on_tile, ambient_temperature,
                   current_season, season_cycle, idx, remaining,
                   manual_temperature_control, raised, calls>>
    /\ UNCHANGED fixed

Next ==
    \/ UpdateEnvironment
    \/ UpdateHerbivore
    \/ FinishHerbivores
    \/ UpdatePredator
    \/ FinishPredators
    \/ FinishTick

Spec == Init /\ [][Next]_vars

-----------------------------------------------------------------------------
(* The tick pipeline with predators fast enough to catch prey               *)

\* Predator(row, col, speed, sex) takes any speed; with speed 4.0 the success
\* rate is 0.7, with 4.5 it is capped at 1.0
FastSpeedChoices == {40, 45}

\* an ecosystem whose predators were built with a speed of 4.0 or 4.5
HuntInit == Constructed(PopulationChoices, FastSpeedChoices)

HuntSpec == HuntInit /\ [][Next]_vars

-----------------------------------------------------------------------------
(* The tick pipeline with rain, manual temperature control and key presses  *)

\* Nothing in the program assigns precipitation_level or
\* manual_temperature_control after construction. The specification below
\* starts from an ecosystem whose attributes were assigned from outside: in
\* some runs it rains with probability one half, in the others the manual
\* control is on with the temperature at 99 degrees. Key presses arrive
\* between ticks.
EnvPopulationChoices == {<<1, 1>>}

EnvSettings ==
    {[precipitation_level |-> 50, manual_temperature_control |-> FALSE,
      ambient_temperature |-> 20000],
     [precipitation_level |-> 0, manual_temperature_control |-> TRUE,
      ambient_temperature |-> 99000]}

EnvInit == ConstructedWith(LowTerrainDraws, EnvPopulationChoices, SpeedChoices, EnvSettings)

\* handle_key_press for the keys K_UP (direction 1) and K_DOWN (direction -1),
\* as main calls it before a cycle; K_SPACE changes only a local of the function
KeyPress ==
    /\ pc = "environment"
    /\ calls < MaxCalls
    /\ \E direction \in {1, -1} :
         ambient_temperature' =
            IF manual_temperature_control
            THEN ambient_temperature + direction * 1000
            ELSE ambient_temperature
    /\ calls' = calls + 1
    /\ UNCHANGED <<grid, water_volume, animals, herbivores, predators, plants,
                   animals_on_tile, cycle, current_season, season_cycle,
                   herbivore_population_data, predator_population_data,
                   plant_population_data, pc, idx, remaining,
                   manual_temperature_control, raised>>
    /\ UNCHANGED fixed

\* the environment step of a tick, for the ticks explored with rain
WetUpdateEnvironment == cycle < MaxWetTicks /\ EnvironmentStep

EnvNext ==
    \/ WetUpdateEnvironment
    \/ UpdateHerbivore
    \/ FinishHerbivores
    \/ UpdatePredator
    \/ FinishPredators
    \/ FinishTick
    \/ KeyPress

EnvSpec == EnvInit /\ [][EnvNext]_vars

-----------------------------------------------------------------------------
(* The tick pipeline with rain over sloping ground                         *)

\* Draws for the redistribution: the water columns at elevation 10, cell
\* (0, 2) at elevation 0, below the flood-fill level 0.2, and the land cells
\* of the second row lower than the water but above that level, so that
\* adjust_water_volume moves water onto cells the flood fill does not reach.
HydroElevation(cell) ==
    IF cell[2] < 2 THEN 10
    ELSE IF cell = <<0, 2>> THEN 0
    ELSE IF cell[1] = 0 THEN 60
    ELSE IF cell[2] = 2 THEN 5 ELSE 1

HydroTerrainDraws ==
    {d \in {[elevation |-> [cell \in Cells |-> HydroElevation(cell)],
              raw |-> [cell \in Cells |-> LowRawDraw(cell)]]} :
        \A cell \in Cells : d.raw[cell] \in ChooseTerrainType(d.elevation[cell])}

\* precipitation_level is set to 50 from outside: it rains in half the ticks
HydroInit ==
    ConstructedWith(HydroTerrainDraws, EnvPopulationChoices, SpeedChoices,
                    {[Defaults EXCEPT !.precipitation_level = 50]})

HydroUpdateEnvironment == cycle < MaxHydroTicks /\ EnvironmentStep

HydroNext ==
    \/ HydroUpdateEnvironment
    \/ UpdateHerbivore
    \/ FinishHerbivores
    \/ UpdatePredator
    \/ FinishPredators
    \/ FinishTick

HydroSpec == HydroInit /\ [][HydroNext]_vars

-----------------------------------------------------------------------------
(* The tick pipeline with three herbivores of breeding age                 *)

\* What Ecosystem(GridRows, GridCols, 3, 1) can build when every animal draws
\* the starting age 40: two females and a male between them in the roster,
\* so that in the first tick the second female's step finds an adult male.
MateInit ==
    \E e \in Ecosystems(TerrainDraws, {<<3, 1>>}, SpeedChoices) :
        /\ grid = e.grid
        /\ elevation = e.elevation
        /\ water_volume = e.water_volume
        /\ animals = [id \in DOMAIN e.animals |-> [e.animals[id] EXCEPT !.age = 40]]
        /\ herbivores = e.herbivores
        /\ predators = e.predators
        /\ args = e.args
        /\ plants = <<>>
        /\ animals_on_tile = [cell \in Cells |-> <<>>]
        /\ cycle = 0
        /\ ambient_temperature = Defaults.ambient_temperature
        /\ precipitation_level = Defaults.precipitation_level
        /\ manual_temperature_control = Defaults.manual_temperature_control
        /\ current_season = 1
        /\ season_cycle = 0
        /\ herbivore_population_data = <<>>
        /\ predator_population_data = <<>>
        /\ plant_population_data = <<>>
        /\ pc = "environment"
        /\ idx = 0
        /\ remaining = <<>>
        /\ raised = "none"
        /\ calls = 0

MateUpdateEnvironment == cycle < MaxMateTicks /\ EnvironmentStep

MateNext ==
    \/ MateUpdateEnvironment
    \/ UpdateHerbivore
    \/ FinishHerbivores
    \/ UpdatePredator
    \/ FinishPredators
    \/ FinishTick

MateSpec == MateInit /\ [][MateNext]_vars

-----------------------------------------------------------------------------
(* Calls on the entities of an ecosystem, outside Ecosystem.update         *)

\* Ecosystem.update never calls Animal.update or give_birth, and no constructor
\* draws a fertility of 8 or more. The specification below starts from an
\* ecosystem on dry ground whose animals were handed to add_animal with
\* attributes assigned inside their ranges, and calls handle_reproduction,
\* update and give_birth on them. An exception that leaves a call ends the run.
MateSexChoices == {"F", "M"}
MateColumnChoices == {0, 3}
FemaleFertilityChoices == {10, 80}
ReproductiveDayChoices == {-1, 7, 14}               \* -1: the attribute is not set
PregnancyChoices == {<<FALSE, 0>>, <<TRUE, 1>>, <<TRUE, 0>>}

\* Herbivore(...) or Predator(...), by species
Built(species, row, col, sex) ==
    IF species = "Herbivore" THEN Herbivore(row, col, 10, sex, 30, 50, 10)
    ELSE Predator(row, col, 10, sex, 30, 50, 10)

\* a female at (0, 1) with the drawn attributes assigned
Female(species, adult, fertility, pregnancy, day) ==
    LET a == [Built(species, 0, 1, "F") EXCEPT
                 !.is_adult = adult, !.fertility = fertility,
                 !.is_pregnant = pregnancy[1],
                 !.gestation_period = IF pregnancy[1] THEN pregnancy[2] ELSE @]
    IN  IF day >= 0 THEN [reproductive_day |-> day] @@ a ELSE a

\* an animal of the female's species in her row
Mate(species, sex, adult, col) ==
    [Built(species, 0, col, sex) EXCEPT !.is_adult = adult]

\* an adult male of the other species on the cell next to the female
Bystander(species) ==
    [Built(IF species = "Herbivore" THEN "Predator" ELSE "Herbivore", 0, 2, "M")
        EXCEPT !.is_adult = TRUE]

ReproInit ==
    \E g \in DryGrids, species \in {"Herbivore", "Predator"},
       adult \in BOOLEAN, fertility \in FemaleFertilityChoices,
       pregnancy \in PregnancyChoices, day \in ReproductiveDayChoices,
       sex \in MateSexChoices, mate_adult \in BOOLEAN, col \in MateColumnChoices :
        /\ grid = g
        /\ elevation = [cell \in Cells |-> 60]
        /\ water_volume = [cell \in Cells |-> 0]
        /\ precipitation_level = 0
        /\ args = [rows |-> GridRows, cols |-> GridCols,
                   initial_herbivore_count |-> 0, initial_predator_count |-> 0]
        /\ animals = [id \in 0 .. 2 |->
                        IF id = 0 THEN Female(species, adult, fertility, pregnancy, day)
                        ELSE IF id = 1 THEN Mate(species, sex, mate_adult, col)
                        ELSE Bystander(species)]
        /\ herbivores = IF species = "Herbivore" THEN <<0, 1>> ELSE <<2>>
        /\ predators = IF species = "Herbivore" THEN <<2>> ELSE <<0, 1>>
        /\ plants = <<>>
        /\ animals_on_tile = [cell \in Cells |-> <<>>]
        /\ cycle = 0
        /\ ambient_temperature = 20000
        /\ current_season = 1
        /\ season_cycle = 0
        /\ herbivore_population_data = <<>>
        /\ predator_population_data = <<>>
        /\ plant_population_data = <<>>
        /\ pc = "idle"
        /\ idx = 0
        /\ remaining = <<>>
        /\ manual_temperature_control = FALSE
        /\ raised = "none"
        /\ calls = 0

\* ecosystem.handle_reproduction(animal, new_animals) with an empty list, as
\* update_herbivores calls it; the list stays empty
OpHandleReproduction ==
    /\ raised = "none"
    /\ calls < MaxCalls
    /\ \E id \in Range(herbivores \o predators) :
         /\ animals' = [animals EXCEPT ![id] =
                HandleReproduction(animals, herbivores, predators, id, animals[id])]
         /\ idx' = id
    /\ pc' = "handle_reproduction"
    /\ calls' = calls + 1
    /\ UNCHANGED <<grid, water_volume, herbivores, predators, plants, animals_on_tile, cycle,
                   ambient_temperature, current_season, season_cycle,
                   herbivore_population_data, predator_population_data,
                   plant_population_data, remaining, manual_temperature_control,
                   raised>>
    /\ UNCHANGED fixed

\* animal.update(ecosystem)
OpUpdate ==
    /\ raised = "none"
    /\ calls < MaxCalls
    /\ \E id \in Range(herbivores \o predators) :
         /\ animals' = [animals EXCEPT ![id] = Update(animals[id]).animal]
         /\ raised' = Update(animals[id]).raised
         /\ idx' = id
    /\ pc' = "update"
    /\ calls' = calls + 1
    /\ UNCHANGED <<grid, water_volume, herbivores, predators, plants, animals_on_tile, cycle,
                   ambient_temperature, current_season, season_cycle,
                   herbivore_population_data, predator_population_data,
                   plant_population_data, remaining, manual_temperature_control>>
    /\ UNCHANGED fixed

\* animal.give_birth(ecosystem)
OpGiveBirth ==
    /\ raised = "none"
    /\ calls < MaxCalls
    /\ \E id \in Range(herbivores \o predators) :
         /\ animals' = [animals EXCEPT ![id] = GiveBirth(animals[id]).animal]
         /\ raised' = GiveBirth(animals[id]).raised
         /\ idx' = id
    /\ pc' = "give_birth"
    /\ calls' = calls + 1
    /\ UNCHANGED <<grid, water_volume, herbivores, predators, plants, animals_on_tile, cycle,
                   ambient_temperature, current_season, season_cycle,
                   herbivore_population_data, predator_population_data,
                   plant_population_data, remaining, manual_temperature_control>>
    /\ UNCHANGED fixed

ReproNext ==
    \/ OpHandleReproduction
    \/ OpUpdate
    \/ OpGiveBirth

ReproSpec == ReproInit /\ [][ReproNext]_vars

-----------------------------------------------------------------------------
(* Properties of the tick pipeline                                         *)

\* the ids listed in one of the two rosters
Roster == Range(herbivores) \cup Range(predators)

\* the state between two calls of Ecosystem.update
TickBoundary == pc = "environment"

\* C1: once an animal is dead its decay never increases, and an animal that
\* died of a cause other than predation leaves its roster only in a step that
\* leaves its decay at 0, and is gone from the roster at the end of the tick
\* in which its decay reached 0.
C1_RemovedExactlyAtDecayZero ==
    [][\A id \in DOMAIN animals :
          /\ animals[id].is_dead => animals'[id].decay <= animals[id].decay
          /\ (/\ id \in Roster
              /\ id \notin Roster'
              /\ animals'[id].cause_of_death # "Predation")
                => animals'[id].decay = 0
          /\ (animals'[id].is_dead /\ animals'[id].decay = 0 /\ TickBoundary')
                => id \notin Roster']_vars

\* C2: at every tick boundary, construction included, every animal of a roster
\* is listed in the occupancy index under its current cell.
C2_OccupancyComplete ==
    TickBoundary =>
        \A id \in Roster :
            id \in Range(animals_on_tile[<<animals[id].row, animals[id].col>>])

\* C3: at every tick boundary every entry of the occupancy index under a cell
\* is an animal that is still in its roster and stands on that cell.
C3_OccupancySound ==
    TickBoundary =>
        \A cell \in Cells : \A id \in Range(animals_on_tile[cell]) :
            /\ id \in Roster
            /\ <<animals[id].row, animals[id].col>> = cell

\* C4: at every tick boundary the plant list has as many plants as the grid
\* has vegetation cells.
C4_PlantTileCoupling ==
    TickBoundary =>
        Len(plants) = Cardinality({cell \in Cells : grid[cell] = "vegetation"})

\* C5: at every tick boundary the energy of every animal of a roster is in [0, 100].
C5_EnergyInRange ==
    TickBoundary =>
        \A id \in Roster : 0 <= animals[id].energy /\ animals[id].energy <= 100

\* C7: the hunting success rate of every predator is in [0, 1] in every state.
C7_HuntingRateInUnitInterval ==
    \A id \in Range(predators) :
        /\ 0 <= animals[id].hunting_success_rate
        /\ animals[id].hunting_success_rate <= 1000

\* the cells among the 8 around (row, col) that are land or vegetation and on
\* which no other herbivore of the roster stands
FreeNeighbours(g, an, hs, id) ==
    {n \in GetValidMoves(g, an[id].row, an[id].col) :
        /\ n # <<an[id].row, an[id].col>>
        /\ ~\E o \in Range(hs) : o # id /\ <<an[o].row, an[o].col>> = n}

\* C8: a herbivore that is alive with positive energy in its movement step and
\* has a free passable neighbouring cell ends the step on another cell, and a
\* herbivore without such a cell keeps its position.
C8_HerbivoreLeavesItsCell ==
    [][(pc = "herbivores" /\ idx <= Len(herbivores)) =>
          LET id == herbivores[idx]
              from == <<animals[id].row, animals[id].col>>
              to == <<animals'[id].row, animals'[id].col>>
          IN  /\ (/\ ~animals'[id].is_dead
                  /\ animals'[id].energy > 0
                  /\ FreeNeighbours(grid', animals, herbivores, id) # {})
                    => to # from
              /\ FreeNeighbours(grid', animals, herbivores, id) = {} => to = from]_vars

-----------------------------------------------------------------------------
(* Properties of the pipeline with successful hunts (HuntSpec)             *)

\* C6: in every state the hunger and the thirst of every animal are in
\* [0, 100], whatever needs increases, feedings, drinks and successful hunts
\* came before.
C6_NeedsInRange ==
    \A id \in DOMAIN animals :
        /\ 0 <= animals[id].hunger /\ animals[id].hunger <= 100
        /\ 0 <= animals[id].thirst /\ animals[id].thirst <= 100

\* C6, its case: a predator has consumed prey and its hunger and thirst were
\* floored at 0, a herbivore has fed down to hunger 0, and an animal's hunger
\* was capped at 100
C6_Witness ==
    /\ \E p \in Range(predators) :
          /\ animals[p].hunger = 0 /\ animals[p].thirst = 0 /\ animals[p].age > 40
    /\ \E h \in DOMAIN animals : animals[h].cause_of_death = "Predation"
    /\ \E h \in Range(herbivores) : animals[h].hunger = 0 /\ animals[h].energy > 100

-----------------------------------------------------------------------------
(* Properties of reproduction (ReproSpec)                                  *)

\* o is a mate for id: another animal of the same species and the other sex,
\* adult, at Chebyshev distance 1 or less
IsMate(an, id, o) ==
    /\ o # id
    /\ an[o].species = an[id].species
    /\ an[o].sex # an[id].sex
    /\ an[o].is_adult
    /\ Abs(an[o].row - an[id].row) <= 1 /\ Abs(an[o].col - an[id].col) <= 1

\* a step starts a pregnancy of id: is_pregnant becomes true, or the gestation
\* period of a pregnant animal is set anew
PregnancyInitiated(id) ==
    /\ animals'[id].is_pregnant
    /\ ~animals[id].is_pregnant
       \/ animals'[id].gestation_period > animals[id].gestation_period

\* C9: a pregnancy is initiated only by the reproduce call of
\* handle_reproduction, for an adult female, and only when an adult of the same
\* species and the opposite sex stands at Chebyshev distance 1 or less; never
\* for a same-sex, non-adult, non-adjacent or cross-species pair.
C9_PregnancyNeedsAdjacentMate ==
    [][\A id \in DOMAIN animals :
          PregnancyInitiated(id) =>
              /\ pc' = "handle_reproduction" /\ idx' = id
              /\ animals[id].sex = "F" /\ animals[id].is_adult
              /\ \E o \in DOMAIN animals : IsMate(animals, id, o)]_vars

\* C9, its case: handle_reproduction has just made a female pregnant
C9_Witness ==
    /\ pc = "handle_reproduction"
    /\ animals[idx].is_pregnant
    /\ animals[idx].gestation_period \in {20, 100}
    /\ \E o \in DOMAIN animals : IsMate(animals, idx, o)

\* C10: when update or give_birth runs on a pregnant animal and leaves its
\* gestation period at 0 or below, the birth completes: one animal of the
\* mother's species is appended to the roster of that species on the mother's
\* cell, the mother is no longer pregnant and her cooldown was set to 300 (the
\* same update may already have counted it down to 299 or 298).
C10_BirthCompletes ==
    [][\A id \in DOMAIN animals :
          (/\ calls' = calls + 1 /\ idx' = id /\ pc' \in {"update", "give_birth"}
           /\ animals[id].is_pregnant /\ animals'[id].gestation_period <= 0)
          => LET before == GetSameSpecies(herbivores, predators, animals[id])
                 after == GetSameSpecies(herbivores', predators', animals[id])
             IN  /\ Len(after) = Len(before) + 1
                 /\ animals'[after[Len(after)]].species = animals[id].species
                 /\ animals'[after[Len(after)]].row = animals[id].row
                 /\ animals'[after[Len(after)]].col = animals[id].col
                 /\ ~animals'[id].is_pregnant
                 /\ animals'[id].reproduction_cooldown \in 298 .. 300]_vars

-----------------------------------------------------------------------------
(* Properties of the fertility cycle and of positions                      *)

\* the animal the step of a roster loop handles, if the step is one
Processed(id) ==
    \/ pc = "herbivores" /\ idx <= Len(herbivores) /\ herbivores[idx] = id
    \/ pc = "predators" /\ idx <= Len(predators) /\ predators[idx] = id

\* C11: in every tick, the step that handles a female which is alive before
\* and after it advances her cycle day by one modulo 28 and updates her
\* fertility: +1 capped at 10 on the days 7..14, -1 floored at 0 on the other
\* days. For a female without a cycle day the fertility moves one step up or
\* down all the same.
C11_FertilityCycleEveryTick ==
    [][\A id \in DOMAIN animals :
          (/\ Processed(id) /\ idx' = idx + 1
           /\ animals[id].sex = "F" /\ ~animals[id].is_dead /\ ~animals'[id].is_dead)
          => IF "reproductive_day" \in DOMAIN animals[id]
             THEN /\ "reproductive_day" \in DOMAIN animals'[id]
                  /\ animals'[id].reproductive_day =
                        (animals[id].reproductive_day + 1) % 28
                  /\ animals'[id].fertility =
                        CalculateFertility([animals[id] EXCEPT
                            !.reproductive_day = (@ + 1) % 28])
             ELSE animals'[id].fertility \in
                        {Min(animals[id].fertility + 10, 100),
                         Max(animals[id].fertility - 10, 0)}]_vars

\* C12: in every state the fertility of every animal is in [0, 10].
C12_FertilityInRange ==
    \A id \in DOMAIN animals :
        0 <= animals[id].fertility /\ animals[id].fertility <= 100

\* C12, its case: update_fertility has run three times on a female and has
\* held her fertility at the cap of 10, or at the floor of 0
C12_Witness ==
    /\ pc = "update" /\ calls = 3
    /\ "reproductive_day" \in DOMAIN animals[idx]
    /\ \/ animals[idx].fertility = 100 /\ animals[idx].reproductive_day = 10
       \/ animals[idx].fertility = 0 /\ animals[idx].reproductive_day = 17

\* C13: at every tick boundary, from construction on, every live animal of a
\* roster stands inside the grid on a land or vegetation cell, never on water
\* or sand.
C13_PositionsPassable ==
    TickBoundary =>
        \A id \in Roster :
            ~animals[id].is_dead =>
                /\ InGrid(animals[id].row, animals[id].col)
                /\ grid[<<animals[id].row, animals[id].col>>] \in {"land", "vegetation"}

-----------------------------------------------------------------------------
(* Properties of the hydrology and of the temperature control (EnvSpec)    *)

\* C14: at every tick boundary, from construction on and after rain,
\* redistribution and the purge at 100 degrees, no cell has a negative water
\* volume, and no water cell has the volume 0.
C14_WaterVolume ==
    TickBoundary =>
        \A cell \in Cells :
            /\ water_volume[cell] >= 0
            /\ grid[cell] = "water" => water_volume[cell] # 0

\* C14, its case: it has rained, the low cell (0, 2), dry at construction, was
\* flooded, and redistribution has moved water between the water cells
C14_Witness ==
    /\ TickBoundary /\ cycle >= 2
    /\ grid[<<0, 2>>] = "water"
    /\ water_volume[<<0, 2>>] > 50000
    /\ \E cell \in Cells :
           /\ grid[cell] = "water"
           /\ water_volume[cell] > 100000
           /\ water_volume[cell] # water_volume[<<0, 2>>]

------------------------------------------------------------------------------
(* The tick pipeline over a full cycle of the four seasons                 *)

\* the ecosystems of the long run: one on the barren terrain, and, of the
\* placements _generate_valid_location can draw on the terrain with land, the
\* one with the herbivore on (0, 3) and the predator on (1, 3)
SeasonInit ==
    \/ ConstructedWith(BarrenTerrainDraws, EnvPopulationChoices, SpeedChoices, {Defaults})
    \/ /\ Constructed(EnvPopulationChoices, SpeedChoices)
       /\ animals[0].row = 0 /\ animals[0].col = 3
       /\ animals[1].row = 1 /\ animals[1].col = 3

\* whether a plant can grow or an animal can move somewhere on the grid
Fertile(g) == \E cell \in Cells : g[cell] \in {"land", "vegetation"}

\* the environment step of a tick, for the ticks of the long run
LongUpdateEnvironment ==
    /\ cycle < (IF Fertile(grid) THEN MaxFertileTicks ELSE MaxSeasonTicks)
    /\ EnvironmentStep

SeasonNext ==
    \/ LongUpdateEnvironment
    \/ UpdateHerbivore
    \/ FinishHerbivores
    \/ UpdatePredator
    \/ FinishPredators
    \/ FinishTick

SeasonSpec == SeasonInit /\ [][SeasonNext]_vars

------------------------------------------------------------------------------
(* Calls of handle_vital_stats on an animal with assigned attributes       *)

\* In the pipeline an animal's hunger reaches 100 only inside the call that
\* kills it. The specification below starts from an ecosystem on dry ground
\* with one animal whose attributes were assigned inside their ranges, and
\* calls handle_vital_stats on it.
VitalHungerChoices == {0, 100}
VitalThirstChoices == {0, 100}
VitalAgeChoices == {30, 49}                         \* max_age is 50
VitalTemperatureChoices == {37000, 42000}
VitalEnergyChoices == {0, 100}

\* an animal at (0, 1) with the drawn attributes assigned
Subject(species, hunger, thirst, age, temperature, energy) ==
    [Built(species, 0, 1, "M") EXCEPT
        !.hunger = hunger, !.thirst = thirst, !.age = age, !.is_adult = TRUE,
        !.body_temperature = temperature, !.energy = energy]

VitalInit ==
    \E g \in DryGrids, species \in {"Herbivore", "Predator"},
       hunger \in VitalHungerChoices, thirst \in VitalThirstChoices,
       age \in VitalAgeChoices, temperature \in VitalTemperatureChoices,
       energy \in VitalEnergyChoices :
        /\ grid = g
        /\ elevation = [cell \in Cells |-> 60]
        /\ water_volume = [cell \in Cells |-> 0]
        /\ precipitation_level = 0
        /\ args = [rows |-> GridRows, cols |-> GridCols,
                   initial_herbivore_count |-> 0, initial_predator_count |-> 0]
        /\ animals = [id \in {0} |->
                        Subject(species, hunger, thirst, age, temperature, energy)]
        /\ herbivores = IF species = "Herbivore" THEN <<0>> ELSE <<>>
        /\ predators = IF species = "Herbivore" THEN <<>> ELSE <<0>>
        /\ plants = <<>>
        /\ animals_on_tile = [cell \in Cells |-> <<>>]
        /\ cycle = 0
        /\ ambient_temperature = 20000
        /\ current_season = 1
        /\ season_cycle = 0
        /\ herbivore_population_data = <<>>
        /\ predator_population_data = <<>>
        /\ plant_population_data = <<>>
        /\ pc = "idle"
        /\ idx = 0
        /\ remaining = <<>>
        /\ manual_temperature_control = FALSE
        /\ raised = "none"
        /\ calls = 0

\* animal.handle_vital_stats()
OpHandleVitalStats ==
    /\ calls < MaxCalls
    /\ \E id \in Range(herbivores \o predators) :
         /\ animals' = [animals EXCEPT ![id] = HandleVitalStats(animals[id])]
         /\ idx' = id
    /\ pc' = "handle_vital_stats"
    /\ calls' = calls + 1
    /\ UNCHANGED <<grid, water_volume, herbivores, predators, plants, animals_on_tile, cycle,
                   ambient_temperature, current_season, season_cycle,
                   herbivore_population_data, predator_population_data,
                   plant_population_data, remaining, manual_temperature_control,
                   raised>>
    /\ UNCHANGED fixed

VitalNext == OpHandleVitalStats

VitalSpec == VitalInit /\ [][VitalNext]_vars

------------------------------------------------------------------------------
(* Death checks, die calls and hunts on an animal with assigned attributes *)

\* The specification below starts from an ecosystem on dry ground with one
\* animal whose attributes were assigned inside their ranges and, next to it,
\* a predator fast enough to catch prey. It calls handle_vital_stats,
\* _check_death_conditions and die on them, and lets the predator hunt the
\* animal while it is in the herbivore roster.
DeathAgeChoices == {30, 50}                         \* max_age is 50
DieCauseChoices == {"Predation"}

\* Predator(1, 1, 4.0, 'M') as an adult
Hunter == [Predator(1, 1, 40, "M", 30, 50, 10) EXCEPT !.is_adult = TRUE]

DeathInit ==
    \E g \in DryGrids, species \in {"Herbivore", "Predator"},
       hunger \in VitalHungerChoices, thirst \in VitalThirstChoices,
       age \in DeathAgeChoices, temperature \in VitalTemperatureChoices,
       energy \in VitalEnergyChoices :
        /\ grid = g
        /\ elevation = [cell \in Cells |-> 60]
        /\ water_volume = [cell \in Cells |-> 0]
        /\ precipitation_level = 0
        /\ args = [rows |-> GridRows, cols |-> GridCols,
                   initial_herbivore_count |-> 0, initial_predator_count |-> 0]
        /\ animals = [id \in {0, 1} |->
                        IF id = 0
                        THEN Subject(species, hunger, thirst, age, temperature, energy)
                        ELSE Hunter]
        /\ herbivores = IF species = "Herbivore" THEN <<0>> ELSE <<>>
        /\ predators = IF species = "Herbivore" THEN <<1>> ELSE <<0, 1>>
        /\ plants = <<>>
        /\ animals_on_tile = [cell \in Cells |-> <<>>]
        /\ cycle = 0
        /\ ambient_temperature = 20000
        /\ current_season = 1
        /\ season_cycle = 0
        /\ herbivore_population_data = <<>>
        /\ predator_population_data = <<>>
        /\ plant_population_data = <<>>
        /\ pc = "idle"
        /\ idx = 0
        /\ remaining = <<>>
        /\ manual_temperature_control = FALSE
        /\ raised = "none"
        /\ calls = 0

\* animal._check_death_conditions()
OpCheckDeathConditions ==
    /\ calls < MaxCalls
    /\ \E id \in DOMAIN animals :
         /\ animals' = [animals EXCEPT ![id] = CheckDeathConditions(animals[id])]
         /\ idx' = id
    /\ pc' = "check_death_conditions"
    /\ calls' = calls + 1
    /\ UNCHANGED <<grid, water_volume, herbivores, predators, plants, animals_on_tile, cycle,
                   ambient_temperature, current_season, season_cycle,
                   herbivore_population_data, predator_population_data,
                   plant_population_data, remaining, manual_temperature_control,
                   raised>>
    /\ UNCHANGED fixed

\* animal.die(cause)
OpDie ==
    /\ calls < MaxCalls
    /\ \E id \in DOMAIN animals, cause \in DieCauseChoices :
         /\ animals' = [animals EXCEPT ![id] = Die(animals[id], cause)]
         /\ idx' = id
    /\ pc' = "die"
    /\ calls' = calls + 1
    /\ UNCHANGED <<grid, water_volume, herbivores, predators, plants, animals_on_tile, cycle,
                   ambient_temperature, current_season, season_cycle,
                   herbivore_population_data, predator_population_data,
                   plant_population_data, remaining, manual_temperature_control,
                   raised>>
    /\ UNCHANGED fixed

\* predator.hunt(prey, ecosystem) for a prey of the herbivore roster: the hunt
\* costs 20 energy; on success prey.die("Predation") and _consume_prey, which
\* removes the prey from the roster
OpHunt ==
    /\ calls < MaxCalls
    /\ \E prey \in Range(herbivores), success \in HuntOutcomes(animals[1]) :
         LET hunter == [animals[1] EXCEPT !.energy = animals[1].energy - 20]
         IN  /\ IF success
                THEN /\ animals' = [animals EXCEPT
                                       ![prey] = Die(animals[prey], "Predation"),
                                       ![1] = ConsumePrey(hunter)]
                     /\ herbivores' = RemoveFirst(herbivores, prey)
                ELSE /\ animals' = [animals EXCEPT ![1] = hunter]
                     /\ herbivores' = herbivores
             /\ idx' = prey
    /\ pc' = "hunt"
    /\ calls' = calls + 1
    /\ UNCHANGED <<grid, water_volume, predators, plants, animals_on_tile, cycle,
                   ambient_temperature, current_season, season_cycle,
                   herbivore_population_data, predator_population_data,
                   plant_population_data, remaining, manual_temperature_control,
                   raised>>
    /\ UNCHANGED fixed

DeathNext ==
    \/ OpHandleVitalStats
    \/ OpCheckDeathConditions
    \/ OpDie
    \/ OpHunt

DeathSpec == DeathInit /\ [][DeathNext]_vars

------------------------------------------------------------------------------
(* Calls of handle_movement on the herbivores of an ecosystem on dry ground *)

\* ecosystem.handle_movement(animal) for a herbivore, as update_herbivores
\* calls it: _get_valid_moves, get_nearby_animals, Animal.move
OpHandleMovement ==
    /\ calls < MaxCalls
    /\ \E id \in Range(herbivores) :
         LET a == animals[id]
             targets == IF a.is_dead THEN {}
                        ELSE AnimalMoveTargets(animals, animals_on_tile, a,
                                GetValidMoves(grid, a.row, a.col),
                                GetNearbyAnimals(animals, herbivores, predators, id))
         IN  /\ IF targets = {}
                THEN UNCHANGED <<animals, animals_on_tile>>
                ELSE \E t \in targets :
                       /\ animals' = [animals EXCEPT ![id] =
                                         [a EXCEPT !.row = t[1], !.col = t[2]]]
                       /\ animals_on_tile' =
                             IndexAfterMove(animals_on_tile, id, <<a.row, a.col>>, t)
             /\ idx' = id
    /\ pc' = "handle_movement"
    /\ calls' = calls + 1
    /\ UNCHANGED <<grid, water_volume, herbivores, predators, plants, cycle,
                   ambient_temperature, current_season, season_cycle,
                   herbivore_population_data, predator_population_data,
                   plant_population_data, remaining, manual_temperature_control,
                   raised>>
    /\ UNCHANGED fixed

HerdSpec == ReproInit /\ [][OpHandleMovement]_vars

------------------------------------------------------------------------------
(* Calls of refine_water_bodies_and_create_shorelines on a drawn grid       *)

\* The method rewrites the grid it finds and reads nothing else. The
\* specification below hands it every grid of water, land and vegetation
\* cells and has the one step that calls it. With GridRows rows the expansion
\* of _generate_terrain fills every gap before the method runs; from 5 rows
\* and 5 columns on it leaves the patterns drawn here, for instance a water
\* cell whose two water neighbours come later in row-major order.
TerrainTypeChoices == {"water", "land", "vegetation"}

ShoreInit ==
    \E g \in [Cells -> TerrainTypeChoices] :
        /\ grid = g
        /\ elevation = [cell \in Cells |-> 60]
        /\ water_volume = [cell \in Cells |-> IF g[cell] = "water" THEN 100000 ELSE 0]
        /\ precipitation_level = 0
        /\ args = [rows |-> GridRows, cols |-> GridCols,
                   initial_herbivore_count |-> 0, initial_predator_count |-> 0]
        /\ animals = <<>>
        /\ herbivores = <<>>
        /\ predators = <<>>
        /\ plants = <<>>
        /\ animals_on_tile = [cell \in Cells |-> <<>>]
        /\ cycle = 0
        /\ ambient_temperature = 20000
        /\ current_season = 1
        /\ season_cycle = 0
        /\ herbivore_population_data = <<>>
        /\ predator_population_data = <<>>
        /\ plant_population_data = <<>>
        /\ pc = "idle"
        /\ idx = 0
        /\ remaining = <<>>
        /\ manual_temperature_control = FALSE
        /\ raised = "none"
        /\ calls = 0

\* the water volumes after the refinement and the shorelines: every cell they
\* replace is a Terrain(new_type, elevation) with the default volume 0
RefinedVolume(g, volume, refined) ==
    [cell \in Cells |-> IF refined[cell] # g[cell] THEN 0 ELSE volume[cell]]

\* ecosystem.refine_water_bodies_and_create_shorelines()
OpRefineWaterBodies ==
    /\ calls < MaxCalls
    /\ \E refined \in {GenerateShorelines(g) : g \in RefineFrom(grid, 0)} :
         /\ grid' = refined
         /\ water_volume' = RefinedVolume(grid, water_volume, refined)
    /\ pc' = "refine_water_bodies_and_create_shorelines"
    /\ calls' = calls + 1
    /\ UNCHANGED <<animals, herbivores, predators, plants, animals_on_tile, cycle,
                   ambient_temperature, current_season, season_cycle,
                   herbivore_population_data, predator_population_data,
                   plant_population_data, idx, remaining,
                   manual_temperature_control, raised>>
    /\ UNCHANGED fixed

ShoreSpec == ShoreInit /\ [][OpRefineWaterBodies]_vars

-------------------------------------------------------------------------------
(* Calls of _smooth_terrain on a drawn grid                                  *)

\* _smooth_terrain, its three iterations: a cell that an iteration turns into
\* water is a new Terrain('water', elevation) with the default volume 0
SmoothIterations ==
    /\ pc = "idle"
    /\ LET smoothed == SmoothOnce(SmoothOnce(SmoothOnce(grid)))
       IN  /\ grid' = smoothed
           /\ water_volume' = RefinedVolume(grid, water_volume, smoothed)
    /\ pc' = "_smooth_terrain"
    /\ UNCHANGED <<animals, herbivores, predators, plants, animals_on_tile, cycle,
                   ambient_temperature, current_season, season_cycle,
                   herbivore_population_data, predator_population_data,
                   plant_population_data, idx, remaining,
                   manual_temperature_control, raised, calls>>
    /\ UNCHANGED fixed

\* _smooth_terrain, its last statement: the refinement and the shorelines
SmoothRefinement ==
    /\ pc = "_smooth_terrain"
    /\ \E refined \in {GenerateShorelines(g) : g \in RefineFrom(grid, 0)} :
         /\ grid' = refined
         /\ water_volume' = RefinedVolume(grid, water_volume, refined)
    /\ pc' = "refine_water_bodies_and_create_shorelines"
    /\ UNCHANGED <<animals, herbivores, predators, plants, animals_on_tile, cycle,
                   ambient_temperature, current_season, season_cycle,
                   herbivore_population_data, predator_population_data,
                   plant_population_data, idx, remaining,
                   manual_temperature_control, raised, calls>>
    /\ UNCHANGED fixed

SmoothNext ==
    \/ SmoothIterations
    \/ SmoothRefinement

SmoothSpec == ShoreInit /\ [][SmoothNext]_vars

------------------------------------------------------------------------------
(* The constructor call Ecosystem(rows, cols, herbivore_count, predator_count) *)

\* The specification below starts in the call, with the arguments drawn, and
\* has the one step that ends it: an ecosystem is returned, or an exception
\* leaves the call and nothing is built.
RowsChoices == {-1, 0, GridRows}
ColsChoices == {-1, 0, GridCols}
HerbivoreCountChoices == {0, 1, 2}
PredatorCountChoices == {0, 1}

\* the value of an attribute no object carries yet
Unbuilt == [cell \in {} |-> "none"]

ConstructInit ==
    \E rows \in RowsChoices, cols \in ColsChoices,
       herbivore_count \in HerbivoreCountChoices,
       predator_count \in PredatorCountChoices :
        /\ args = [rows |-> rows, cols |-> cols,
                   initial_herbivore_count |-> herbivore_count,
                   initial_predator_count |-> predator_count]
        /\ pc = "construct"
        /\ grid = Unbuilt
        /\ elevation = Unbuilt
        /\ water_volume = Unbuilt
        /\ animals = Unbuilt
        /\ animals_on_tile = Unbuilt
        /\ herbivores = <<>>
        /\ predators = <<>>
        /\ plants = <<>>
        /\ cycle = 0
        /\ ambient_temperature = Defaults.ambient_temperature
        /\ precipitation_level = Defaults.precipitation_level
        /\ manual_temperature_control = Defaults.manual_temperature_control
        /\ current_season = 1
        /\ season_cycle = 0
        /\ herbivore_population_data = <<>>
        /\ predator_population_data = <<>>
        /\ plant_population_data = <<>>
        /\ idx = 0
        /\ remaining = <<>>
        /\ raised = "none"
        /\ calls = 0

\* _generate_valid_location: random.randint(0, rows - 1) or
\* random.randint(0, cols - 1) raises ValueError on an empty range; it is
\* called once per animal, so not at all when both counts are 0
ConstructRaises(a) ==
    /\ a.rows <= 0 \/ a.cols <= 0
    /\ a.initial_herbivore_count > 0 \/ a.initial_predator_count > 0

\* what __init__ builds when it does not raise: with rows <= 0 or cols <= 0 the
\* grid has no cell and every loop over range(rows) or range(cols) is empty
ConstructOutcomes(a) ==
    IF a.rows <= 0 \/ a.cols <= 0
    THEN {[grid |-> Unbuilt, elevation |-> Unbuilt, water_volume |-> Unbuilt,
           animals |-> Unbuilt, herbivores |-> <<>>, predators |-> <<>>,
           animals_on_tile |-> Unbuilt]}
    ELSE {[grid |-> e.grid, elevation |-> e.elevation,
           water_volume |-> e.water_volume, animals |-> e.animals,
           herbivores |-> e.herbivores, predators |-> e.predators,
           animals_on_tile |-> [cell \in Cells |-> <<>>]] :
            e \in Ecosystems(TerrainDraws,
                             {<<a.initial_herbivore_count, a.initial_predator_count>>},
                             SpeedChoices)}

\* Ecosystem.__init__
Construct ==
    /\ pc = "construct"
    /\ IF ConstructRaises(args)
       THEN /\ raised' = "ValueError"
            /\ pc' = "failed"
            /\ UNCHANGED <<grid, elevation, water_volume, animals, herbivores,
                           predators, animals_on_tile>>
       ELSE /\ \E e \in ConstructOutcomes(args) :
                 /\ grid' = e.grid
                 /\ elevation' = e.elevation
                 /\ water_volume' = e.water_volume
                 /\ animals' = e.animals
                 /\ herbivores' = e.herbivores
                 /\ predators' = e.predators
                 /\ animals_on_tile' = e.animals_on_tile
            /\ raised' = "none"
            /\ pc' = "environment"
    /\ UNCHANGED <<plants, cycle, ambient_temperature, current_season, season_cycle,
                   herbivore_population_data, predator_population_data,
                   plant_population_data, idx, remaining,
                   manual_temperature_control, calls, precipitation_level, args>>

ConstructNext == Construct

ConstructSpec == ConstructInit /\ [][ConstructNext]_vars

------------------------------------------------------------------------------
(* _initialize_animals, one step per animal placed                          *)

\* The specification below starts after _smooth_terrain, with the terrain
\* built, and follows the two list comprehensions of _initialize_animals. A
\* step places one animal: it is the iteration of the while loop of
\* _generate_valid_location that draws an accepted cell, followed by the
\* constructor. An iteration that draws a refused cell changes nothing and is
\* a stuttering step. Weak fairness of the steps is the fair random choice:
\* while some cell is accepted, one is drawn in the end.
\* The terrains: the leftmost 2, 3 or 4 columns draw water, the others land.
PlaceWaterColumns == {2, 3, 4}
PlaceCountChoices == {0, 1, 2}

PlaceGrids ==
    UNION {ConstructTerrain([cell \in Cells |->
                                IF cell[2] < w THEN "water" ELSE "land"]) :
              w \in PlaceWaterColumns}

PlaceInit ==
    \E g \in PlaceGrids, herbivore_count \in PlaceCountChoices,
       predator_count \in PlaceCountChoices :
        /\ grid = g
        /\ elevation = [cell \in Cells |-> IF g[cell] = "water" THEN 10 ELSE 60]
        /\ water_volume = [cell \in Cells |-> IF g[cell] = "water" THEN 100000 ELSE 0]
        /\ precipitation_level = Defaults.precipitation_level
        /\ args = [rows |-> GridRows, cols |-> GridCols,
                   initial_herbivore_count |-> herbivore_count,
                   initial_predator_count |-> predator_count]
        /\ animals = <<>>
        /\ herbivores = <<>>
        /\ predators = <<>>
        /\ plants = <<>>
        /\ animals_on_tile = [cell \in Cells |-> <<>>]
        /\ cycle = 0
        /\ ambient_temperature = Defaults.ambient_temperature
        /\ current_season = 1
        /\ season_cycle = 0
        /\ herbivore_population_data = <<>>
        /\ predator_population_data = <<>>
        /\ plant_population_data = <<>>
        /\ pc = "initialize_herbivores"
        /\ idx = 0
        /\ remaining = <<>>
        /\ manual_temperature_control = Defaults.manual_temperature_control
        /\ raised = "none"
        /\ calls = 0

\* the first comprehension: Herbivore(*self._generate_valid_location(), ...);
\* remaining holds the list under construction, self.herbivores is still empty
PlaceHerbivore ==
    /\ pc = "initialize_herbivores"
    /\ Len(remaining) < args.initial_herbivore_count
    /\ LET id == Len(remaining) IN
        \E a \in HerbivoreDraws(grid, id) :
           /\ animals' = (id :> a) @@ animals
           /\ remaining' = Append(remaining, id)
    /\ UNCHANGED <<grid, water_volume, herbivores, predators, plants, animals_on_tile,
                   cycle, ambient_temperature, current_season, season_cycle,
                   herbivore_population_data, predator_population_data,
                   plant_population_data, pc, idx, manual_temperature_control,
                   raised, calls>>
    /\ UNCHANGED fixed

\* self.herbivores = [...]: the finished list is assigned
AssignHerbivores ==
    /\ pc = "initialize_herbivores"
    /\ Len(remaining) = args.initial_herbivore_count
    /\ herbivores' = remaining
    /\ remaining' = <<>>
    /\ pc' = "initialize_predators"
    /\ UNCHANGED <<grid, water_volume, animals, predators, plants, animals_on_tile,
                   cycle, ambient_temperature, current_season, season_cycle,
                   herbivore_population_data, predator_population_data,
                   plant_population_data, idx, manual_temperature_control,
                   raised, calls>>
    /\ UNCHANGED fixed

\* the second comprehension: Predator(*self._generate_valid_location(), ...);
\* is_tile_occupied sees the herbivores, self.predators is still empty
PlacePredator ==
    /\ pc = "initialize_predators"
    /\ Len(remaining) < args.initial_predator_count
    /\ LET id == Len(herbivores) + Len(remaining)
           hs == [h \in Range(herbivores) |-> animals[h]]
       IN  \E a \in PredatorDraws(grid, hs, id, SpeedChoices) :
              /\ animals' = (id :> a) @@ animals
              /\ remaining' = Append(remaining, id)
    /\ UNCHANGED <<grid, water_volume, herbivores, predators, plants, animals_on_tile,
                   cycle, ambient_temperature, current_season, season_cycle,
                   herbivore_population_data, predator_population_data,
                   plant_population_data, pc, idx, manual_temperature_control,
                   raised, calls>>
    /\ UNCHANGED fixed

\* self.predators = [...]: the finished list is assigned and __init__ returns
AssignPredators ==
    /\ pc = "initialize_predators"
    /\ Len(remaining) = args.initial_predator_count
    /\ predators' = remaining
    /\ remaining' = <<>>
    /\ pc' = "environment"
    /\ UNCHANGED <<grid, water_volume, animals, herbivores, plants, animals_on_tile,
                   cycle, ambient_temperature, current_season, season_cycle,
                   herbivore_population_data, predator_population_data,
                   plant_population_data, idx, manual_temperature_control,
                   raised, calls>>
    /\ UNCHANGED fixed

PlaceNext ==
    \/ PlaceHerbivore
    \/ AssignHerbivores
    \/ PlacePredator
    \/ AssignPredators

PlaceSpec == PlaceInit /\ [][PlaceNext]_vars /\ WF_vars(PlaceNext)

------------------------------------------------------------------------------
(* Properties of the population series, the seasons and the vital stats    *)

\* C15: every tick appends exactly one entry to each of the three population
\* series: at every tick boundary, after N ticks, each series has the length N,
\* and its last entry is the number of living herbivores, of living predators
\* and of plants at the end of that tick's passes.
C15_PopulationSeries ==
    TickBoundary =>
        /\ Len(herbivore_population_data) = cycle
        /\ Len(predator_population_data) = cycle
        /\ Len(plant_population_data) = cycle
        /\ cycle > 0 =>
              /\ herbivore_population_data[cycle] =
                    Cardinality({i \in 1 .. Len(herbivores) :
                                    ~animals[herbivores[i]].is_dead})
              /\ predator_population_data[cycle] =
                    Cardinality({i \in 1 .. Len(predators) :
                                    ~animals[predators[i]].is_dead})
              /\ plant_population_data[cycle] = Len(plants)

\* C15, its case: several ticks have run, and the recorded counts of herbivores
\* and of plants have both changed and repeated over the run
C15_Witness ==
    /\ TickBoundary /\ cycle >= 3
    /\ herbivore_population_data[1] = herbivore_population_data[2]
    /\ herbivore_population_data[1] # herbivore_population_data[cycle]
    /\ plant_population_data[1] # plant_population_data[cycle]

\* C16: after N ticks the active season is seasons[(N div 50) mod 4]. The
\* season changes exactly in the environment step of every 50th tick; that step
\* adds the new season's temperature modifier to the temperature of the tick
\* and scales every plant's nutrition and every predator's hunting rate once;
\* the environment step of any other tick leaves plants and hunting rates alone
\* and adds nothing to the temperature, and no other step changes the season.
\* So after 200 ticks the season is again the one of tick 0.
C16_SeasonSchedule ==
    /\ [](TickBoundary =>
            /\ current_season = ((cycle \div season_duration) % Len(seasons)) + 1
            /\ season_cycle = cycle % season_duration)
    /\ [][LET transition == (cycle + 1) % season_duration = 0
              base == IF manual_temperature_control THEN ambient_temperature
                      ELSE Sin10000(cycle) + 20000
              season == seasons[current_season']
          IN  IF pc = "environment" /\ pc' = "herbivores"
              THEN /\ (current_season' # current_season) <=> transition
                   /\ Len(plants') = Len(plants)
                   /\ IF transition
                      THEN /\ ambient_temperature' = base + season.temperature_modifier
                           /\ \A i \in 1 .. Len(plants) :
                                 plants'[i].nutrition =
                                    (plants[i].nutrition * season.food_growth_rate) \div 2000
                           /\ \A id \in Range(predators) :
                                 animals'[id].hunting_success_rate =
                                    (animals[id].hunting_success_rate
                                        * season.predator_efficiency) \div 1000
                      ELSE /\ ambient_temperature' = base
                           /\ plants' = plants
                           /\ animals' = animals
              ELSE current_season' = current_season]_vars

\* C16, its case: 200 ticks have run, four transitions have happened and the
\* season is Spring again
C16_Witness == TickBoundary /\ cycle = 4 * season_duration /\ current_season = 1

\* C17, as stated: a call of handle_vital_stats on a live animal whose hunger
\* is 100 leaves it dead with the cause Starvation.
C17_StarvationAtHunger100 ==
    [][\A id \in DOMAIN animals :
          (/\ pc' = "handle_vital_stats" /\ idx' = id /\ calls' = calls + 1
           /\ ~animals[id].is_dead /\ animals[id].hunger = 100)
          => /\ animals'[id].is_dead
             /\ animals'[id].cause_of_death = "Starvation"]_vars

\* C17, amended: a call of handle_vital_stats on a live animal whose hunger is
\* 100 leaves it dead; the one cause recorded is Old Age if the call brings its
\* age to max_age, and Starvation otherwise, whatever its thirst, body
\* temperature and energy are.
C17_StarvationUnlessOldAge ==
    [][\A id \in DOMAIN animals :
          (/\ pc' = "handle_vital_stats" /\ idx' = id /\ calls' = calls + 1
           /\ ~animals[id].is_dead /\ animals[id].hunger = 100)
          => /\ animals'[id].is_dead
             /\ animals'[id].cause_of_death =
                    IF animals[id].age + 1 >= animals[id].max_age
                    THEN "Old Age" ELSE "Starvation"]_vars

\* C17, its case: the first call was made on an animal with hunger 100 (a
\* hunger of 0 would be 10 now) whose thirst, body temperature and energy were
\* at their limits as well, and it died of starvation
C17_Witness ==
    /\ pc = "handle_vital_stats" /\ calls = 1
    /\ animals[idx].hunger = 100 /\ animals[idx].thirst = 100
    /\ animals[idx].body_temperature >= 42000 /\ animals[idx].energy = 0
    /\ animals[idx].is_dead /\ animals[idx].cause_of_death = "Starvation"

\* C19: a constructor call with rows <= 0 or cols <= 0 ends with an exception,
\* whatever the two counts are, and returns no ecosystem.
C19_NonPositiveDimensionsFail ==
    (pc # "construct" /\ (args.rows <= 0 \/ args.cols <= 0))
        => (pc = "failed" /\ raised # "none")

\* C20: a key press for a warmer or colder temperature changes the ambient
\* temperature by exactly +1 or -1 degree when the manual control is on and
\* leaves it as it is when the control is off; and with the manual control on,
\* the environment step of a tick does not overwrite the temperature: it keeps
\* it, apart from the modifier a change of season adds.
C20_TemperatureNudge ==
    [][/\ (pc = "environment" /\ calls' = calls + 1)
            => IF manual_temperature_control
               THEN ambient_temperature' - ambient_temperature \in {1000, -1000}
               ELSE ambient_temperature' = ambient_temperature
       /\ (pc = "environment" /\ pc' = "herbivores" /\ manual_temperature_control)
            => ambient_temperature' =
                  IF current_season' # current_season
                  THEN ambient_temperature + seasons[current_season'].temperature_modifier
                  ELSE ambient_temperature]_vars

\* C20, its case: under manual control a key press has raised the temperature
\* from 99 to 100 degrees, and ticks have run since without changing it
C20_Witness ==
    /\ TickBoundary /\ cycle >= 1 /\ calls = 1
    /\ manual_temperature_control
    /\ ambient_temperature = 100000
    /\ \A cell \in Cells : grid[cell] # "water"

------------------------------------------------------------------------------
(* Properties of the order of a herbivore's steps, of death and of hunts   *)

\* C21: within a tick a live herbivore moves before it feeds: the vegetation
\* cell its step turns to land by feeding is the cell it stands on after the
\* step, the one it moved to.
C21_FeedsWhereItMovedTo ==
    [][\A id \in DOMAIN animals :
          (/\ pc = "herbivores" /\ Processed(id) /\ idx' = idx + 1
           /\ ~animals'[id].is_dead)
          => \A cell \in Cells :
                (grid[cell] = "vegetation" /\ grid'[cell] = "land")
                    => cell = <<animals'[id].row, animals'[id].col>>]_vars

\* C22: _check_death_conditions on a live animal records the cause of the first
\* condition that holds, in the order age >= max_age (Old Age), hunger >= 100
\* (Starvation), thirst >= 100 (Dehydration), body temperature >= 42
\* (Hyperthermia), energy <= 0 (Exhaustion), whatever other conditions hold
\* with it; an animal for which none holds stays alive and unchanged.
C22_FirstConditionInPriority ==
    [][\A id \in DOMAIN animals :
          (/\ pc' = "check_death_conditions" /\ idx' = id /\ calls' = calls + 1
           /\ ~animals[id].is_dead)
          => LET a == animals[id]
                 first == IF a.age >= a.max_age THEN "Old Age"
                          ELSE IF a.hunger >= 100 THEN "Starvation"
                          ELSE IF a.thirst >= 100 THEN "Dehydration"
                          ELSE IF a.body_temperature >= 42000 THEN "Hyperthermia"
                          ELSE IF a.energy <= 0 THEN "Exhaustion"
                          ELSE "None"
             IN  IF first = "None"
                 THEN animals'[id] = a
                 ELSE /\ animals'[id].is_dead
                      /\ animals'[id].cause_of_death = first]_vars

\* C22, its case: the first call was the check on an animal for which the
\* last three conditions held together, and Dehydration was recorded
C22_Witness ==
    /\ pc = "check_death_conditions" /\ calls = 1
    /\ animals[idx].age < animals[idx].max_age /\ animals[idx].hunger < 100
    /\ animals[idx].thirst >= 100 /\ animals[idx].body_temperature >= 42000
    /\ animals[idx].energy <= 0
    /\ animals[idx].is_dead /\ animals[idx].cause_of_death = "Dehydration"

\* C23: death is terminal: no vital-stats call, death check, die call or hunt
\* makes a dead animal alive again or changes its cause of death.
C23_DeathIsTerminal ==
    [][\A id \in DOMAIN animals :
          animals[id].is_dead
          => /\ animals'[id].is_dead
             /\ animals'[id].cause_of_death = animals[id].cause_of_death]_vars

\* C23, its case: the last call was die("Predation") on an animal that had
\* already starved, and it still carries its first cause
C23_Witness ==
    /\ pc = "die" /\ calls >= 2
    /\ animals[idx].is_dead /\ animals[idx].cause_of_death = "Starvation"

------------------------------------------------------------------------------
(* Properties of drinking, of the shorelines and of the refinement         *)

\* C25: in its drinking step a live herbivore's thirst is reduced by 50,
\* floored at 0, if and only if one of the 8 cells around the cell it drinks
\* at, diagonals included, is water.
C25_DrinksNextToWater ==
    [][\A id \in DOMAIN animals :
          (/\ pc = "herbivores" /\ Processed(id) /\ idx' = idx + 1
           /\ ~HandleVitalStats(HandleDecay(animals[id])).is_dead)
          => LET vital == HandleVitalStats(HandleDecay(animals[id]))
             IN  animals'[id].thirst =
                    IF IsAdjacentToWater8(grid, vital.row, vital.col)
                    THEN Max(vital.thirst - 50, 0)
                    ELSE vital.thirst]_vars

\* C26: the shorelines turn a land or vegetation cell to sand exactly when one
\* of its 4 orthogonal neighbours is water; a cell whose only water neighbours
\* are diagonal keeps its type.
C26_ShorelineOrthogonal ==
    [][(pc' = "refine_water_bodies_and_create_shorelines")
          => \A cell \in Cells :
                grid[cell] \in {"land", "vegetation"}
                => (grid'[cell] = "sand"
                      <=> IsAdjacentToWater4(grid', cell[1], cell[2]))]_vars

\* C27: after refine_water_bodies_and_create_shorelines no isolated water cell
\* remains: every water cell has at least 2 water cells among its 8 neighbours.
C27_NoIsolatedWater ==
    [][(pc' = "refine_water_bodies_and_create_shorelines")
          => \A cell \in Cells :
                grid'[cell] = "water"
                => CountWaterNeighbors(grid', cell[1], cell[2]) >= 2]_vars

------------------------------------------------------------------------------
(* Properties of herbivore moves, of the herd target and of ineligible     *)
(* females                                                                 *)

\* C28: a herbivore never moves onto a cell on which another herbivore of the
\* roster stands: after a herbivore's move it is the only roster herbivore on
\* its new cell; and a cell on which no roster herbivore stands is never kept
\* out of the candidates as occupied by the same species.
C28_NoSharedCellAfterMove ==
    [][\A id \in DOMAIN animals :
          (/\ pc = "herbivores" /\ Processed(id) /\ idx' = idx + 1
           /\ <<animals'[id].row, animals'[id].col>> # <<animals[id].row, animals[id].col>>)
          => /\ \A o \in Range(herbivores) \ {id} :
                   <<animals'[o].row, animals'[o].col>>
                      # <<animals'[id].row, animals'[id].col>>
             /\ \A cell \in Cells :
                   IsTileOccupiedBySameSpecies(animals_on_tile, animals, cell, "Herbivore")
                   => IsTileOccupied(animals, herbivores, cell[1], cell[2])]_vars

\* C29: a juvenile herbivore's herd target comes only from the adult herbivores
\* within radius 5: a call that moves a live juvenile leaves it on one of the
\* candidate cells nearest the centre of those adults, or on any candidate
\* when no adult herbivore is near, adult predators or not.
C29_HerdOfOwnSpecies ==
    [][\A id \in Range(herbivores) :
          (/\ pc' = "handle_movement" /\ idx' = id
           /\ ~animals[id].is_dead /\ ~animals[id].is_adult)
          => LET herd == {o \in GetNearbyAnimals(animals, herbivores, predators, id) :
                             animals[o].species = "Herbivore"}
                 targets == AnimalMoveTargets(animals, animals_on_tile, animals[id],
                               GetValidMoves(grid, animals[id].row, animals[id].col),
                               herd)
             IN  targets # {} => <<animals'[id].row, animals'[id].col>> \in targets]_vars

\* C30: for both species a call of reproduce leaves the female's pregnancy
\* flag and gestation countdown as they were when she is ineligible (already
\* pregnant, cooldown above 0, age outside (20, 50), hunger or thirst of 20
\* or more, fertility below 8) or when the partner is dead; a pregnant
\* female's countdown is never restarted.
C30_IneligibleFemaleUnchanged ==
    [][\A id \in Roster :
          LET a == animals[id]
              ineligible ==
                  \/ a.is_pregnant
                  \/ a.reproduction_cooldown > 0
                  \/ ~(a.age > 20 /\ a.age < 50)
                  \/ a.hunger >= 20
                  \/ a.thirst >= 20
                  \/ a.fertility < 80
              partners == Range(GetSameSpecies(herbivores, predators, a)) \ {id}
          IN  (/\ pc' = "handle_reproduction" /\ idx' = id
               /\ (ineligible \/ \A o \in partners : animals[o].is_dead))
              => /\ animals'[id].is_pregnant = a.is_pregnant
                 /\ animals'[id].gestation_period = a.gestation_period]_vars

------------------------------------------------------------------------------
(* Properties of gestation, of the hydrology, of the rosters and of the    *)
(* occupancy index                                                         *)

\* C31: an update of a pregnant herbivore that no exception leaves lowers her
\* gestation countdown by exactly 1, and a positive reproduction cooldown by
\* exactly 1.
C31_CountdownByOne ==
    [][\A id \in Range(herbivores) :
          (/\ pc' = "update" /\ idx' = id /\ raised' = "none"
           /\ animals[id].is_pregnant)
          => /\ animals'[id].gestation_period = animals[id].gestation_period - 1
             /\ animals[id].reproduction_cooldown > 0
                   => animals'[id].reproduction_cooldown
                         = animals[id].reproduction_cooldown - 1]_vars

\* C32: construction terminates: under fair random choice the placement loop
\* returns a cell for every animal requested and __init__ returns, whatever
\* the terrain and the counts.
C32_ConstructionTerminates == <>(pc = "environment")

\* C33: at every tick boundary, after any rain and redistribution, every
\* water cell holds a volume of at least 10 and every other cell a volume
\* from 0 to 10.
C33_VolumeThresholds ==
    TickBoundary =>
        \A cell \in Cells :
            IF grid[cell] = "water"
            THEN water_volume[cell] >= 10000
            ELSE 0 <= water_volume[cell] /\ water_volume[cell] <= 10000

\* C33, its case: it has rained twice, the flood fill has made cell (0, 2)
\* water, redistribution has made another cell water that was dry land at
\* construction, and a cell that is not water holds some water
C33_Witness ==
    /\ TickBoundary /\ cycle >= 2
    /\ grid[<<0, 2>>] = "water"
    /\ \E cell \in Cells \ {<<0, 2>>} :
          /\ HydroElevation(cell) < 10
          /\ grid[cell] = "water"
          /\ water_volume[cell] > 50000
    /\ \E cell \in Cells : grid[cell] # "water" /\ water_volume[cell] > 0

C36_NoHuntEverSucceeds ==
    /\ [](/\ \A id \in DOMAIN animals :
               /\ animals[id].species = "Predator"
                    => animals[id].hunting_success_rate <= 0
               /\ animals[id].cause_of_death # "Predation"
          /\ (TickBoundary /\ cycle >= 10)
                => /\ predators = << >>
                   /\ predator_population_data[Len(predator_population_data)] = 0)
    /\ [][\A id \in DOMAIN animals :
             animals[id].species = "Predator"
                => animals'[id].hunger >= animals[id].hunger]_vars

\* C36, its case: the 10th tick is over; a predator that was on the roster
\* for nine ticks has starved in the 10th, before its old age, and the series
\* ends with 0
C36_Witness ==
    /\ TickBoundary /\ cycle = 10
    /\ Len(predator_population_data) = 10
    /\ predator_population_data[9] > 0
    /\ predator_population_data[10] = 0
    /\ \E p \in DOMAIN animals :
          /\ animals[p].species = "Predator"
          /\ animals[p].hunting_success_rate < 0
          /\ animals[p].cause_of_death = "Starvation"
          /\ animals[p].hunger = 100
          /\ animals[p].age < animals[p].max_age

\* C37: the three iterations of _smooth_terrain change no cell's terrain type:
\* no cell has more than 9 neighbour samples, its own included, so the test
\* for more than 10 water samples never holds; cells change only in the
\* refinement and the shorelines that follow.
C37_SmoothingKeepsTerrainTypes ==
    /\ [](\A cell \in Cells :
            /\ Cardinality(GetNeighbors(cell[1], cell[2])) <= 9
            /\ CalculateSmoothedTerrain(grid, cell[1], cell[2]) = grid[cell])
    /\ [][/\ pc' = "_smooth_terrain" => grid' = grid
          /\ grid' # grid => pc' = "refine_water_bodies_and_create_shorelines"]_vars

\* C37, its case: the three iterations are over on a grid with a cell that is
\* not water while all the other samples of its neighbourhood are, five at
\* least
C37_Witness ==
    /\ pc = "_smooth_terrain"
    /\ \E cell \in Cells :
          /\ grid[cell] # "water"
          /\ Cardinality(GetNeighbors(cell[1], cell[2])) >= 6
          /\ \A n \in GetNeighbors(cell[1], cell[2]) \ {cell} : grid[n] = "water"

\* the places of an animal in the lists of the occupancy index
Listings(index, id) ==
    {place \in UNION {{<<cell, i>> : i \in 1 .. Len(index[cell])} : cell \in DOMAIN index} :
        index[place[1]][place[2]] = id}

\* C38: in every reachable state each animal is listed at most once across
\* all the lists of the occupancy index, whatever moves were made, a first move
\* from a cell where the animal was not listed and a move onto the animal's own
\* cell included.
C38_ListedAtMostOnce ==
    \A id \in DOMAIN animals : Cardinality(Listings(animals_on_tile, id)) <= 1

\* C38, its case: three calls of handle_movement have moved the female
\* herbivore twice, from column 1 to column 3, and the other herbivore once;
\* each is listed under the cell it stands on
C38_Witness ==
    /\ pc = "handle_movement" /\ calls = 3
    /\ herbivores = <<0, 1>>
    /\ animals[0].col = 3
    /\ \A id \in {0, 1} :
          Listings(animals_on_tile, id) # {}
          /\ \A place \in Listings(animals_on_tile, id) :
                place[1] = <<animals[id].row, animals[id].col>>

====
